---------------------------- MODULE Spec2Model ----------------------------
(***************************************************************************)
(* Model of the livestream analysis pipeline (src/app): the scene track,   *)
(* the emotion track, the language track, the report assembler and the     *)
(* pure scoring / aggregation helpers they share.                          *)
(*                                                                         *)
(* Numbers.  Scores are integers in milli-points (100.0 is 100000).        *)
(* Ratios (question_ratio, reply_rate, base_mean, ...) are in thousandths. *)
(* Times are in milliseconds.  Pixel metrics are in whole units.           *)
(* Division truncates downwards (\div).                                    *)
(***************************************************************************)
EXTENDS Integers, Sequences, FiniteSets, TLC

VARIABLES track, call, scene, emo, lang, full, memo, par

vars == <<track, call, scene, emo, lang, full, memo, par>>

\* one score point / one unit ratio / one second, in model units
Scale == 10 ^ 3

\* 100.0 score points
Full == 100 * Scale

\* a magnitude above every threshold a quotient by 1e-6 is later compared with
Huge == 10 ^ 9

Max(a, b) == IF a >= b THEN a ELSE b

Min(a, b) == IF a <= b THEN a ELSE b

Clamp(x, lo, hi) == Max(lo, Min(hi, x))

\* num / max(den, 1e-6) times mult, for whole-number num and den: with den <= 0
\* the divisor is 1e-6 and a non-zero quotient leaves every later bound.
DivEps(num, den, mult) ==
    IF den > 0 THEN (num * mult) \div den
    ELSE IF num = 0 THEN 0
    ELSE IF num > 0 THEN Huge ELSE 0 - Huge

RECURSIVE SumSeq(_)
SumSeq(s) == IF s = <<>> THEN 0 ELSE Head(s) + SumSeq(Tail(s))

\* np.mean of a non-empty list
Mean(s) == SumSeq(s) \div Len(s)

(***************************************************************************)
(* scene_analysis/metrics_frame.py: the three score curves                 *)
(***************************************************************************)

\* band_score without the max(0.0, ...) floors
band_score_nofloor(x, lo, hi) ==
    IF x <= lo THEN DivEps(x, lo, Full)
    ELSE IF x >= hi THEN DivEps(255 - x, 255 - hi, Full)
    ELSE 80 * Scale + DivEps(x - lo, hi - lo, 20 * Scale)

band_score(x, lo, hi) ==
    IF x <= lo THEN Max(0, DivEps(x, lo, Full))
    ELSE IF x >= hi THEN Max(0, DivEps(255 - x, 255 - hi, Full))
    ELSE 80 * Scale + DivEps(x - lo, hi - lo, 20 * Scale)

linear_score(x, lo, hi) ==
    LET xc == Max(lo, Min(hi, x))
    IN  DivEps(xc - lo, hi - lo, Full)

inverse_score(x, good, bad) ==
    IF x <= good THEN Full
    ELSE IF x >= bad THEN 0
    ELSE DivEps(bad - x, bad - good, Full)


(***************************************************************************)
(* scene_analysis/scene_config.py                                          *)
(***************************************************************************)

\* SceneConfig(): every field at its default.  sample_fps in thousandths of
\* a Hz, ocr_every_s and no_logo_min_s in ms, weights in hundredths.
SceneConfig ==
    [ sample_fps         |-> 1 * Scale,
      ocr_every_s        |-> 5 * Scale,
      brightness_band    |-> <<120, 180>>,
      saturation_band    |-> <<60, 160>>,
      contrast_band      |-> <<40, 160>>,
      sharpness_band     |-> <<100, 300>>,
      color_cast_good    |-> 10,
      color_cast_bad     |-> 40,
      dark_v_thresh      |-> 110,
      blur_varlap_thresh |-> 120,
      no_logo_min_s      |-> 8 * Scale,
      ocr_only_if_sharp  |-> TRUE,
      ocr_min_varlap     |-> 140,
      autoscale_enabled  |-> TRUE,
      w_exposure         |-> 30,
      w_sharpness        |-> 25,
      w_contrast         |-> 15,
      w_saturation       |-> 10,
      w_colorcast        |-> 10,
      w_logo             |-> 10 ]

\* round(x, 1) of a score in milli-points
Round1(x) == ((x + 50) \div 100) * 100

\* s_logo: visibility ratio saturated at 30%, area saturated at 5%
\* (both ratios in thousandths)
logo_score(logo_visible_ratio, logo_area_mean) ==
    LET logo_score_ratio == Min(Scale, (logo_visible_ratio * Scale) \div 300)
        logo_score_area  == Min(Scale, (logo_area_mean * Scale) \div 50)
    IN  (60 * logo_score_ratio + 40 * logo_score_area)

\* final_score of analyze_video from the series means
scene_final_score(cfg, v_mean, s_mean, bw_mean, varlap_mean, cast_mean, logo_visible_ratio, logo_area_mean) ==
    LET s_exposure   == band_score(v_mean, cfg.brightness_band[1], cfg.brightness_band[2])
        s_saturation == band_score(s_mean, cfg.saturation_band[1], cfg.saturation_band[2])
        s_contrast   == linear_score(bw_mean, cfg.contrast_band[1], cfg.contrast_band[2])
        s_sharp      == linear_score(
                            Max(Min(varlap_mean, cfg.sharpness_band[2]), cfg.sharpness_band[1]),
                            cfg.sharpness_band[1], cfg.sharpness_band[2])
        s_color      == inverse_score(cast_mean, cfg.color_cast_good, cfg.color_cast_bad)
        s_logo       == logo_score(logo_visible_ratio, logo_area_mean)
    IN  ( cfg.w_exposure   * s_exposure
        + cfg.w_sharpness  * s_sharp
        + cfg.w_contrast   * s_contrast
        + cfg.w_saturation * s_saturation
        + cfg.w_colorcast  * s_color
        + cfg.w_logo       * s_logo ) \div 100

(***************************************************************************)
(* text_language.py: tunable parameters and scoring helpers                *)
(***************************************************************************)

BASELINE == 60

MAX_BONUS == 40

MAX_PENALTY == 20

\* exp(-ACC_EXP_K) = exp(-0.35), in ten-thousandths
Exp_ACC_EXP_K == 7047

\* exp(-1 / ACC_POS_SCALE) = exp(-1/6), in ten-thousandths
Exp_ACC_POS_SCALE == 8465

\* exp(-1 / P_CTA_SCALE) = exp(-1/2.5), in ten-thousandths
Exp_P_CTA_SCALE == 6703

CL_FILLER_COEF == 40

CL_WPM_TARGET == 150

CL_WPM_TOL == 60

\* exp(-(30 / CL_WPM_TOL)^2) = exp(-1/4), in ten-thousandths: the bell's
\* factor per squared half-tolerance step
Exp_CL_WPM_Q == 7788

\* 100 * q^n in milli-points for a factor q in ten-thousandths:
\* 100 * math.exp(-n * c) with q = exp(-c)
RECURSIVE ExpDecay(_, _)
ExpDecay(q, n) == IF n <= 0 THEN Full ELSE (ExpDecay(q, n - 1) * q) \div 10000

\* remap_with_baseline without the clamp of raw_score to 0..100
remap_no_input_clamp(raw_score) ==
    LET mapped == (BASELINE - MAX_PENALTY) * Scale
                  + ((MAX_PENALTY + MAX_BONUS) * raw_score) \div 100
    IN  Clamp(mapped, 0, Full)

\* remap_with_baseline(raw_score), raw and result in milli-points
remap_with_baseline(raw_score) ==
    LET r      == Clamp(raw_score, 0, Full)
        mapped == (BASELINE - MAX_PENALTY) * Scale
                  + ((MAX_PENALTY + MAX_BONUS) * r) \div 100
    IN  Clamp(mapped, 0, Full)

\* score_accuracy_independent, from the number pos of positive-evidence hits
score_accuracy_independent(pos) ==
    Clamp(Full - ExpDecay(Exp_ACC_POS_SCALE, pos), 0, Full)

score_compliance_from_hits_exp(hits) ==
    Clamp(ExpDecay(Exp_ACC_EXP_K, Max(0, hits)), 0, Full)

\* score_clarity_from_signals: filler_rate in thousandths, wpm given as the
\* signed number wpm_k of 30-wpm steps from CL_WPM_TARGET
score_clarity_from_signals(filler_rate, wpm_k) ==
    LET clarity_fillers == Clamp(Full - CL_FILLER_COEF * Max(0, filler_rate), 0, Full)
        clarity_wpm     == ExpDecay(Exp_CL_WPM_Q, wpm_k * wpm_k)
        score           == (6 * clarity_wpm + 4 * clarity_fillers) \div 10
    IN  Clamp(score, 0, Full)

\* score_persuasion_from_cta under P_MODE = mode
score_persuasion_from_cta(mode, cta_hits) ==
    LET h == Max(0, cta_hits)
    IN  IF mode = "piecewise"
        THEN IF h = 0 THEN 60 * Scale
             ELSE IF h <= 3 THEN 60 * Scale + ((88 - 60) * Scale * h) \div 3
             ELSE IF h <= 8 THEN 88 * Scale + ((96 - 88) * Scale * (h - 3)) \div 5
             ELSE Full
        ELSE Clamp(Full - ExpDecay(Exp_P_CTA_SCALE, h), 0, Full)

\* inter_score of analyze_language: question_ratio and reply_rate in
\* thousandths, cta_hits_pure a count
interaction_score(question_ratio, cta_hits_pure, reply_rate) ==
    LET inter_base == ( Min(Scale, question_ratio * 4) * 4
                      + Min(Scale, (cta_hits_pure * Scale) \div 15) * 3
                      + Min(Scale, reply_rate * 2) * 3 ) \div 10
    IN  Clamp(100 * inter_base, 0, Full)

(***************************************************************************)
(* emotion_analysis/emotion_analysis.py: calibrate_score                   *)
(***************************************************************************)

\* calibrate_score(base_mean, cfg): base_mean, gain, bias, target and alpha
\* in thousandths; cfg.score_floor and cfg.score_ceiling in score points
calibrate_score(base_mean, cfg) ==
    LET floor == cfg.score_floor * 10
        ceil  == cfg.score_ceiling * 10
        base  == Clamp(base_mean, 0, Scale)
        y     == IF cfg.calibration_mode = "affine"
                 THEN (cfg.calib_gain * base) \div Scale + cfg.calib_bias
                 ELSE IF cfg.calibration_mode = "target_mean"
                 THEN ((Scale - cfg.target_strength) * base
                       + cfg.target_strength * cfg.target_mean) \div Scale
                 ELSE base
    IN  100 * Clamp(y, floor, ceil)


(***************************************************************************)
(* scene_analysis/highlights.py and the local helper of analyze_emotion    *)
(***************************************************************************)

\* Python's None for a timestamp (timestamps are never negative)
None == 0 - 1

\* the for loop of compress_runs over zip(times, mask), from element k on:
\* the loop's variables after the last element
RECURSIVE compress_loop(_, _, _, _, _)
compress_loop(times, mask, min_s, k, st) ==
    IF k > Min(Len(times), Len(mask)) THEN st
    ELSE LET t     == times[k]
             flag  == mask[k]
             start1 == IF flag /\ st.start_t = None THEN t ELSE st.start_t
             close == ~flag /\ start1 # None
             out1  == IF close /\ st.prev_t # None /\ (st.prev_t - start1) >= min_s
                      THEN Append(st.out, <<start1, st.prev_t>>)
                      ELSE st.out
             start2 == IF close THEN None ELSE start1
         IN  compress_loop(times, mask, min_s, k + 1,
                           [out |-> out1, start_t |-> start2, prev_t |-> t])

\* compress_runs without the append after the loop (a run still open at the
\* end of the series is dropped)
compress_runs_no_tail(times, mask, min_s) ==
    compress_loop(times, mask, min_s, 1,
                  [out |-> <<>>, start_t |-> None, prev_t |-> None]).out

\* scene_analysis/highlights.py compress_runs
compress_runs(times, mask, min_s) ==
    IF times = <<>> THEN <<>>
    ELSE LET st == compress_loop(times, mask, min_s, 1,
                                 [out |-> <<>>, start_t |-> None, prev_t |-> None])
         IN  IF st.start_t # None /\ st.prev_t # None /\ (st.prev_t - st.start_t) >= min_s
             THEN Append(st.out, <<st.start_t, st.prev_t>>)
             ELSE st.out

\* the compress_runs defined inside analyze_emotion
compress_runs_local(times, mask, min_s) ==
    LET st == compress_loop(times, mask, min_s, 1,
                            [out |-> <<>>, start_t |-> None, prev_t |-> None])
    IN  IF st.start_t # None /\ st.prev_t # None /\ (st.prev_t - st.start_t) >= min_s
        THEN Append(st.out, <<st.start_t, st.prev_t>>)
        ELSE st.out


(***************************************************************************)
(* Direct calls of the pure helpers, on inputs from bounded sets           *)
(***************************************************************************)

\* bounds of the helper inputs
XMax == 270

HitsMax == 30

WpmKMax == 6

TMax == 5

MaxLen == 4

MaxMinS == 3

XMin == 0 - 12

\* inputs of the series means of the scene score
MeanGrid == {0, 50, 100, 150, 200, 255}

RatioGrid == {0, 20, 150, 300, 1000}

\* raw scores and base means offered to remap_with_baseline / calibrate_score
RawGrid == {0 - 500000, 0 - 1, 0, 1, 25000, 50000, 99999, 100000, 100001, 250000}

BaseGrid == {0 - 500, 0, 100, 350, 500, 800, 1000, 1500}

\* EmotionConfig carries none of the calibration fields: getattr supplies
\* "none", 0.0 and 100.0; the other modes are what a caller's config may set
CalibConfigs ==
    { [calibration_mode |-> m, score_floor |-> 0, score_ceiling |-> 100,
       calib_gain |-> g, calib_bias |-> b, target_mean |-> 800, target_strength |-> a] :
         m \in {"none", "affine", "target_mean"},
         g \in {0 - 1000, 1000, 3000}, b \in {0 - 300, 0, 400}, a \in {0, 650, 1000} }

\* the strictly increasing sequence of the elements of a finite set of numbers
RECURSIVE SortedSeq(_)
SortedSeq(S) ==
    IF S = {} THEN <<>>
    ELSE LET m == CHOOSE x \in S : \A y \in S : x <= y
         IN  <<m>> \o SortedSeq(S \ {m})

TimesInputs == { SortedSeq(S) : S \in { T \in SUBSET (0 .. TMax) : Cardinality(T) <= MaxLen } }

ScoreFns == { "band_score", "linear_score", "inverse_score", "scene_final_score",
              "calibrate_score", "score_compliance_from_hits_exp",
              "score_accuracy_independent", "score_clarity_from_signals",
              "score_persuasion_from_cta", "remap_with_baseline", "interaction_score" }

NoCall == [fn |-> "none", args |-> <<>>, out |-> 0]

Call_band_score ==
    /\ track = "scores"
    /\ call.fn = "none"
    /\ \E x \in XMin .. XMax, band \in {SceneConfig.brightness_band, SceneConfig.saturation_band} :
          call' = [fn |-> "band_score", args |-> <<x, band[1], band[2]>>,
                   out |-> band_score(x, band[1], band[2])]
    /\ UNCHANGED <<track, scene, emo, lang, full, memo, par>>

Call_linear_score ==
    /\ track = "scores"
    /\ call.fn = "none"
    /\ \E x \in XMin .. XMax, band \in {SceneConfig.contrast_band, SceneConfig.sharpness_band} :
          call' = [fn |-> "linear_score", args |-> <<x, band[1], band[2]>>,
                   out |-> linear_score(x, band[1], band[2])]
    /\ UNCHANGED <<track, scene, emo, lang, full, memo, par>>

Call_inverse_score ==
    /\ track = "scores"
    /\ call.fn = "none"
    /\ \E x \in XMin .. XMax :
          call' = [fn |-> "inverse_score",
                   args |-> <<x, SceneConfig.color_cast_good, SceneConfig.color_cast_bad>>,
                   out |-> inverse_score(x, SceneConfig.color_cast_good, SceneConfig.color_cast_bad)]
    /\ UNCHANGED <<track, scene, emo, lang, full, memo, par>>

Call_scene_final_score ==
    /\ track = "scores"
    /\ call.fn = "none"
    /\ \E v \in MeanGrid, sv \in {0, 100, 255}, bw \in {0, 100, 255}, vl \in {0, 200, 900},
          c \in {0, 25, 120}, r \in RatioGrid, a \in RatioGrid :
          call' = [fn |-> "scene_final_score", args |-> <<v, sv, bw, vl, c, r, a>>,
                   out |-> scene_final_score(SceneConfig, v, sv, bw, vl, c, r, a)]
    /\ UNCHANGED <<track, scene, emo, lang, full, memo, par>>

Call_calibrate_score ==
    /\ track = "scores"
    /\ call.fn = "none"
    /\ \E b \in BaseGrid, cfg \in CalibConfigs :
          call' = [fn |-> "calibrate_score", args |-> <<b, cfg>>,
                   out |-> calibrate_score(b, cfg)]
    /\ UNCHANGED <<track, scene, emo, lang, full, memo, par>>

Call_score_compliance_from_hits_exp ==
    /\ track = "scores"
    /\ call.fn = "none"
    /\ \E hits \in (0 - 3) .. HitsMax :
          call' = [fn |-> "score_compliance_from_hits_exp", args |-> <<hits>>,
                   out |-> score_compliance_from_hits_exp(hits)]
    /\ UNCHANGED <<track, scene, emo, lang, full, memo, par>>

Call_score_accuracy_independent ==
    /\ track = "scores"
    /\ call.fn = "none"
    /\ \E pos \in 0 .. HitsMax :
          call' = [fn |-> "score_accuracy_independent", args |-> <<pos>>,
                   out |-> score_accuracy_independent(pos)]
    /\ UNCHANGED <<track, scene, emo, lang, full, memo, par>>

Call_score_clarity_from_signals ==
    /\ track = "scores"
    /\ call.fn = "none"
    /\ \E fr \in {0 - 500, 0, 500, 2500, 9000}, k \in (0 - 5) .. WpmKMax :
          call' = [fn |-> "score_clarity_from_signals", args |-> <<fr, k>>,
                   out |-> score_clarity_from_signals(fr, k)]
    /\ UNCHANGED <<track, scene, emo, lang, full, memo, par>>

Call_score_persuasion_from_cta ==
    /\ track = "scores"
    /\ call.fn = "none"
    /\ \E mode \in {"saturating", "piecewise", "other"}, h \in (0 - 3) .. HitsMax :
          call' = [fn |-> "score_persuasion_from_cta", args |-> <<mode, h>>,
                   out |-> score_persuasion_from_cta(mode, h)]
    /\ UNCHANGED <<track, scene, emo, lang, full, memo, par>>

Call_remap_with_baseline ==
    /\ track = "scores"
    /\ call.fn = "none"
    /\ \E raw \in RawGrid :
          call' = [fn |-> "remap_with_baseline", args |-> <<raw>>,
                   out |-> remap_with_baseline(raw)]
    /\ UNCHANGED <<track, scene, emo, lang, full, memo, par>>

Call_interaction_score ==
    /\ track = "scores"
    /\ call.fn = "none"
    /\ \E qr \in {0, 100, 250, 333, 1000}, cta \in 0 .. HitsMax, rr \in {0, 250, 500, 1000} :
          call' = [fn |-> "interaction_score", args |-> <<qr, cta, rr>>,
                   out |-> interaction_score(qr, cta, rr)]
    /\ UNCHANGED <<track, scene, emo, lang, full, memo, par>>

Call_compress_runs ==
    /\ track = "scores"
    /\ call.fn = "none"
    /\ \E times \in TimesInputs, min_s \in 0 .. MaxMinS :
         \E mask \in [1 .. Len(times) -> BOOLEAN] :
          call' = [fn |-> "compress_runs", args |-> <<times, mask, min_s>>,
                   out |-> compress_runs(times, mask, min_s)]
    /\ UNCHANGED <<track, scene, emo, lang, full, memo, par>>

Call_compress_runs_local ==
    /\ track = "scores"
    /\ call.fn = "none"
    /\ \E times \in TimesInputs, min_s \in 0 .. MaxMinS :
         \E mask \in [1 .. Len(times) -> BOOLEAN] :
          call' = [fn |-> "compress_runs_local", args |-> <<times, mask, min_s>>,
                   out |-> compress_runs_local(times, mask, min_s)]
    /\ UNCHANGED <<track, scene, emo, lang, full, memo, par>>


(***************************************************************************)
(* scene_analysis: autoscale, OCR, the frame loop of analyze_video         *)
(***************************************************************************)

\* most frames one run decodes
MaxFrames == 4

\* int(round(n / max(d, 1e-6))) for whole n >= 0: Python rounds halves to even
RoundDiv(n, d) ==
    IF d <= 0 THEN (IF n = 0 THEN 0 ELSE Huge)
    ELSE LET q == n \div d
             r == n % d
         IN  IF 2 * r < d THEN q
             ELSE IF 2 * r > d THEN q + 1
             ELSE IF q % 2 = 0 THEN q ELSE q + 1

\* autoscale_config with "<=" for "<" in the bracket tests
autoscale_config_le(cfg, duration_s) ==
    IF ~cfg.autoscale_enabled THEN cfg
    ELSE IF duration_s <= 10 * 60 * Scale THEN cfg
    ELSE IF duration_s <= 30 * 60 * Scale
         THEN [cfg EXCEPT !.sample_fps = Min(cfg.sample_fps, 500),
                          !.ocr_every_s = Max(cfg.ocr_every_s, 8 * Scale)]
    ELSE IF duration_s <= 60 * 60 * Scale
         THEN [cfg EXCEPT !.sample_fps = Min(cfg.sample_fps, 330),
                          !.ocr_every_s = Max(cfg.ocr_every_s, 12 * Scale)]
    ELSE [cfg EXCEPT !.sample_fps = Min(cfg.sample_fps, 200),
                     !.ocr_every_s = Max(cfg.ocr_every_s, 20 * Scale)]

\* autoscale_config(cfg, duration_s): duration in ms; returns a new config
autoscale_config(cfg, duration_s) ==
    IF ~cfg.autoscale_enabled THEN cfg
    ELSE IF duration_s < 10 * 60 * Scale THEN cfg
    ELSE IF duration_s < 30 * 60 * Scale
         THEN [cfg EXCEPT !.sample_fps = Min(cfg.sample_fps, 500),
                          !.ocr_every_s = Max(cfg.ocr_every_s, 8 * Scale)]
    ELSE IF duration_s < 60 * 60 * Scale
         THEN [cfg EXCEPT !.sample_fps = Min(cfg.sample_fps, 330),
                          !.ocr_every_s = Max(cfg.ocr_every_s, 12 * Scale)]
    ELSE [cfg EXCEPT !.sample_fps = Min(cfg.sample_fps, 200),
                     !.ocr_every_s = Max(cfg.ocr_every_s, 20 * Scale)]

\* str.lower() on the words the model's OCR engine and keyword sets use
Lower(w) == IF w = "Acme" THEN "acme" ELSE w

\* logo_hit_by_keywords(words, brand_keywords)
logo_hit_by_keywords(words, brand_keywords) ==
    IF brand_keywords = {} THEN FALSE
    ELSE LET lower_words == { Lower(w) : w \in words }
         IN  \E kw \in brand_keywords : Lower(kw) \in lower_words

\* ocr_on_frame without the try/except around pytesseract.image_to_data
ocr_on_frame_no_except(backend, engine) ==
    IF backend = "unavailable" THEN [raised |-> FALSE, words |-> {}, text_area |-> 0]
    ELSE IF engine.raises THEN [raised |-> TRUE, words |-> {}, text_area |-> 0]
    ELSE [raised |-> FALSE, words |-> engine.words, text_area |-> engine.text_area]

\* ocr_on_frame(frame, cfg): backend says whether pytesseract was importable,
\* engine is what image_to_data does on this frame (raise, or the confident
\* words with their area ratio in thousandths)
ocr_on_frame(backend, engine) ==
    IF backend = "unavailable" THEN [raised |-> FALSE, words |-> {}, text_area |-> 0]
    ELSE IF engine.raises THEN [raised |-> FALSE, words |-> {}, text_area |-> 0]
    ELSE [raised |-> FALSE, words |-> engine.words, text_area |-> engine.text_area]

\* what image_to_data can do on one frame
EngineRaises == [raises |-> TRUE, words |-> {}, text_area |-> 0]

EngineOutcomes(backend) ==
    IF backend = "raises" THEN {EngineRaises}
    ELSE IF backend = "unavailable" THEN {EngineRaises}
    ELSE { EngineRaises,
           [raises |-> FALSE, words |-> {}, text_area |-> 0],
           [raises |-> FALSE, words |-> {"Acme", "sale"}, text_area |-> 20] }

\* decoded frames, by what frame_metrics computes on them; ok = FALSE is a
\* frame on which frame_metrics raises (cv2 error on a corrupt buffer)
Frames ==
    { [ok |-> TRUE, v_mean |-> 150, s_mean |-> 100, contrast_bw |-> 100,
       varlap |-> 200, color_cast |-> 5],
      [ok |-> TRUE, v_mean |-> 50, s_mean |-> 40, contrast_bw |-> 30,
       varlap |-> 60, color_cast |-> 50],
      [ok |-> FALSE, v_mean |-> 0, s_mean |-> 0, contrast_bw |-> 0,
       varlap |-> 0, color_cast |-> 0] }

\* configs a caller passes
SceneConfigs ==
    { SceneConfig,
      [SceneConfig EXCEPT !.ocr_only_if_sharp = FALSE, !.no_logo_min_s = 4 * Scale],
      [SceneConfig EXCEPT !.sample_fps = 125, !.autoscale_enabled = FALSE] }

\* what the container reports: CAP_PROP_FPS in thousandths of a Hz (0 when
\* unknown) and CAP_PROP_FRAME_COUNT
VideoMetas ==
    { [fps |-> 250, frames |-> 4],
      [fps |-> 2000, frames |-> 4],
      [fps |-> 250, frames |-> 200],
      [fps |-> 250, frames |-> 1000],
      [fps |-> 0, frames |-> 0] }

IdleScene == [pc |-> "idle"]

IdleEmo == [pc |-> "idle"]

\* the state on entry of analyze_video(video_path, brand_keywords, config);
\* ocr_times records the timestamps t at which ocr_on_frame was called
SceneStart(config, brand_keywords, backend) ==
    [ pc |-> "start", cap |-> "none", error |-> "none",
      config |-> config, brand_keywords |-> brand_keywords, ocr_backend |-> backend,
      fps |-> 0, total_frames |-> 0, duration |-> 0, eff_cfg |-> config,
      eff_is_config |-> TRUE, step |-> 1, next_ocr_t |-> 0,
      times |-> <<>>, v_list |-> <<>>, s_list |-> <<>>, bw_list |-> <<>>,
      varlap_list |-> <<>>, cast_list |-> <<>>,
      ocr_frames |-> 0, ocr_logo_frames |-> 0, ocr_area_sum |-> 0,
      ocr_times |-> <<>>,
      timeline |-> <<>>, i |-> 0, sampled |-> 0,
      result |-> [score |-> None] ]

InitScene ==
    \E config \in SceneConfigs, kw \in {{}, {"acme"}},
          backend \in {"ok", "raises", "unavailable"} :
       scene = SceneStart(config, kw, backend)

\* cv2.VideoCapture(video_path) does not open: RuntimeError
scene_open_fails ==
    /\ scene.pc = "start"
    /\ scene' = [scene EXCEPT !.pc = "raised", !.error = "open", !.cap = "unopened"]
    /\ UNCHANGED <<track, call, emo, lang, full, memo, par>>

\* whether autoscale_config returns the object it was given ("return cfg")
\* or a new one (dataclasses.replace)
autoscale_returns_cfg(cfg) == ~cfg.autoscale_enabled

\* lines 16-43 with the autoscaled values written into the caller's config
scene_open_in_place ==
    /\ scene.pc = "start"
    /\ \E meta \in VideoMetas :
         LET fps          == IF meta.fps = 0 THEN 30 * Scale ELSE meta.fps
             total_frames == meta.frames
             duration     == IF total_frames > 0
                             THEN (total_frames * Scale * Scale) \div fps ELSE 0
             eff_cfg      == autoscale_config(scene.config, duration)
             step         == Max(RoundDiv(fps, eff_cfg.sample_fps), 1)
         IN  scene' = [scene EXCEPT !.pc = "loop", !.cap = "open", !.fps = fps,
                                    !.total_frames = total_frames,
                                    !.duration = duration, !.config = eff_cfg,
                                    !.eff_cfg = eff_cfg, !.eff_is_config = TRUE,
                                    !.step = step]
    /\ UNCHANGED <<track, call, emo, lang, full, memo, par>>

\* lines 16-43: open, read the metadata, autoscale, derive the step
scene_open ==
    /\ scene.pc = "start"
    /\ \E meta \in VideoMetas :
         LET fps          == IF meta.fps = 0 THEN 30 * Scale ELSE meta.fps
             total_frames == meta.frames
             duration     == IF total_frames > 0
                             THEN (total_frames * Scale * Scale) \div fps ELSE 0
             eff_cfg      == autoscale_config(scene.config, duration)
             step         == Max(RoundDiv(fps, eff_cfg.sample_fps), 1)
         IN  scene' = [scene EXCEPT !.pc = "loop", !.cap = "open", !.fps = fps,
                                    !.total_frames = total_frames,
                                    !.duration = duration, !.eff_cfg = eff_cfg,
                                    !.eff_is_config = autoscale_returns_cfg(scene.config),
                                    !.step = step]
    /\ UNCHANGED <<track, call, emo, lang, full, memo, par>>


\* [f(x) for x in seq]
MapSeq(seq, f(_)) == [k \in 1 .. Len(seq) |-> f(seq[k])]

\* the highlight dicts of one reason
Spans(spans, reason) ==
    [k \in 1 .. Len(spans) |-> [start |-> spans[k][1], end |-> spans[k][2], reason |-> reason]]

\* lines 92-163 of analyze_video: the value returned once the loop has ended.
\* Highlight reasons: "decode_failed" (无法抽帧/解码失败), "dark" (画面偏暗),
\* "blurry" (画面偏虚), "no_logo" (无商品/Logo露出).
scene_result(sc) ==
    IF sc.times = <<>>
    THEN [ score |-> 0,
           signals |-> [brightness_mean |-> 0, contrast_bw |-> 0, sharpness_varlap |-> 0,
                        saturation_mean |-> 0, color_cast |-> 0,
                        logo_visible_ratio |-> 0, logo_area_mean |-> 0],
           timeline |-> <<>>,
           highlights |-> <<[start |-> 0, end |-> 0, reason |-> "decode_failed"]>>,
           perf |-> [frames_sampled |-> 0, ocr_attempts |-> 0, ocr_hits |-> 0] ]
    ELSE LET cfg == sc.eff_cfg
             v_mean      == Mean(sc.v_list)
             s_mean      == Mean(sc.s_list)
             bw_mean     == Mean(sc.bw_list)
             varlap_mean == Mean(sc.varlap_list)
             cast_mean   == Mean(sc.cast_list)
             logo_visible_ratio ==
                 IF sc.ocr_frames # 0
                 THEN (sc.ocr_logo_frames * Scale) \div Max(sc.ocr_frames, 1) ELSE 0
             logo_area_mean ==
                 IF sc.ocr_frames # 0
                 THEN sc.ocr_area_sum \div Max(sc.ocr_frames, 1) ELSE 0
             final_score == scene_final_score(cfg, v_mean, s_mean, bw_mean, varlap_mean,
                                              cast_mean, logo_visible_ratio, logo_area_mean)
             IsDark(v)   == v < cfg.dark_v_thresh
             IsBlur(vl)  == vl < cfg.blur_varlap_thresh
             NoLogo(d)   == ~d.logo
             Always(d)   == TRUE
             dark_mask   == MapSeq(sc.v_list, IsDark)
             blur_mask   == MapSeq(sc.varlap_list, IsBlur)
             nologo_mask == IF \E k \in 1 .. Len(sc.timeline) : sc.timeline[k].logo
                            THEN MapSeq(sc.timeline, NoLogo)
                            ELSE MapSeq(sc.timeline, Always)
             dark_spans   == compress_runs(sc.times, dark_mask, cfg.no_logo_min_s)
             blur_spans   == compress_runs(sc.times, blur_mask, cfg.no_logo_min_s)
             nologo_spans == compress_runs(sc.times, nologo_mask, cfg.no_logo_min_s)
         IN  [ score |-> Round1(final_score),
               signals |-> [brightness_mean |-> v_mean, contrast_bw |-> bw_mean,
                            sharpness_varlap |-> varlap_mean, saturation_mean |-> s_mean,
                            color_cast |-> cast_mean,
                            logo_visible_ratio |-> logo_visible_ratio,
                            logo_area_mean |-> logo_area_mean],
               timeline |-> sc.timeline,
               highlights |-> Spans(dark_spans, "dark") \o Spans(blur_spans, "blurry")
                              \o Spans(nologo_spans, "no_logo"),
               perf |-> [frames_sampled |-> sc.sampled, ocr_attempts |-> sc.ocr_frames,
                         ocr_hits |-> sc.ocr_logo_frames] ]

\* frames read so far
SceneDecoded == scene.i

\* cap.read() returns ret = False: the loop breaks, the handle is released and
\* the result is built
scene_read_end ==
    /\ scene.pc = "loop"
    /\ scene' = [scene EXCEPT !.pc = "done", !.cap = "released",
                              !.result = scene_result(scene)]
    /\ UNCHANGED <<track, call, emo, lang, full, memo, par>>

\* a frame is read whose index is not a multiple of step
scene_read_skip ==
    /\ scene.pc = "loop"
    /\ SceneDecoded < MaxFrames
    /\ scene.i % scene.step # 0
    /\ scene' = [scene EXCEPT !.i = scene.i + 1]
    /\ UNCHANGED <<track, call, emo, lang, full, memo, par>>

\* the loop body with next_ocr_t moved on every frame on which OCR was due
scene_frame_postponing(sc, frame, engine) ==
    LET cfg == sc.eff_cfg
        t   == (sc.i * Scale * Scale) \div sc.fps
        do_ocr0 == t >= sc.next_ocr_t
        do_ocr  == IF cfg.ocr_only_if_sharp
                   THEN do_ocr0 /\ frame.varlap >= cfg.ocr_min_varlap
                   ELSE do_ocr0
        ocr  == ocr_on_frame(sc.ocr_backend, engine)
        text_area == IF do_ocr THEN ocr.text_area ELSE 0
        logo_hit  == IF ~do_ocr THEN FALSE
                     ELSE IF sc.brand_keywords # {}
                     THEN logo_hit_by_keywords(ocr.words, sc.brand_keywords)
                     ELSE ocr.text_area > 10
    IN  IF ~frame.ok
        THEN [sc EXCEPT !.pc = "raised", !.error = "frame_metrics"]
        ELSE IF do_ocr /\ ocr.raised
        THEN [sc EXCEPT !.pc = "raised", !.error = "ocr_on_frame",
                        !.times = Append(sc.times, t),
                        !.v_list = Append(sc.v_list, frame.v_mean),
                        !.s_list = Append(sc.s_list, frame.s_mean),
                        !.bw_list = Append(sc.bw_list, frame.contrast_bw),
                        !.varlap_list = Append(sc.varlap_list, frame.varlap),
                        !.cast_list = Append(sc.cast_list, frame.color_cast),
                        !.sampled = sc.sampled + 1]
        ELSE [sc EXCEPT !.times = Append(sc.times, t),
                        !.v_list = Append(sc.v_list, frame.v_mean),
                        !.s_list = Append(sc.s_list, frame.s_mean),
                        !.bw_list = Append(sc.bw_list, frame.contrast_bw),
                        !.varlap_list = Append(sc.varlap_list, frame.varlap),
                        !.cast_list = Append(sc.cast_list, frame.color_cast),
                        !.sampled = sc.sampled + 1,
                        !.ocr_frames = IF do_ocr THEN sc.ocr_frames + 1 ELSE sc.ocr_frames,
                        !.ocr_logo_frames = IF do_ocr /\ logo_hit
                                            THEN sc.ocr_logo_frames + 1
                                            ELSE sc.ocr_logo_frames,
                        !.ocr_area_sum = IF do_ocr THEN sc.ocr_area_sum + text_area
                                         ELSE sc.ocr_area_sum,
                        !.ocr_times = IF do_ocr THEN Append(sc.ocr_times, t)
                                      ELSE sc.ocr_times,
                        !.next_ocr_t = IF do_ocr0 THEN t + Max(cfg.ocr_every_s, 1 * Scale)
                                       ELSE sc.next_ocr_t,
                        !.timeline = Append(sc.timeline,
                                            [t |-> t, v |-> frame.v_mean, s |-> frame.s_mean,
                                             varlap |-> frame.varlap, logo |-> logo_hit,
                                             text_area |-> text_area]),
                        !.i = sc.i + 1]

\* one pass of the loop body on a sampled frame (lines 51-88); an exception of
\* frame_metrics or ocr_on_frame leaves analyze_video at once
scene_frame(sc, frame, engine) ==
    LET cfg == sc.eff_cfg
        t   == (sc.i * Scale * Scale) \div sc.fps
        do_ocr0 == t >= sc.next_ocr_t
        do_ocr  == IF cfg.ocr_only_if_sharp
                   THEN do_ocr0 /\ frame.varlap >= cfg.ocr_min_varlap
                   ELSE do_ocr0
        ocr  == ocr_on_frame(sc.ocr_backend, engine)
        text_area == IF do_ocr THEN ocr.text_area ELSE 0
        logo_hit  == IF ~do_ocr THEN FALSE
                     ELSE IF sc.brand_keywords # {}
                     THEN logo_hit_by_keywords(ocr.words, sc.brand_keywords)
                     ELSE ocr.text_area > 10
    IN  IF ~frame.ok
        THEN [sc EXCEPT !.pc = "raised", !.error = "frame_metrics"]
        ELSE IF do_ocr /\ ocr.raised
        THEN [sc EXCEPT !.pc = "raised", !.error = "ocr_on_frame",
                        !.times = Append(sc.times, t),
                        !.v_list = Append(sc.v_list, frame.v_mean),
                        !.s_list = Append(sc.s_list, frame.s_mean),
                        !.bw_list = Append(sc.bw_list, frame.contrast_bw),
                        !.varlap_list = Append(sc.varlap_list, frame.varlap),
                        !.cast_list = Append(sc.cast_list, frame.color_cast),
                        !.sampled = sc.sampled + 1]
        ELSE [sc EXCEPT !.times = Append(sc.times, t),
                        !.v_list = Append(sc.v_list, frame.v_mean),
                        !.s_list = Append(sc.s_list, frame.s_mean),
                        !.bw_list = Append(sc.bw_list, frame.contrast_bw),
                        !.varlap_list = Append(sc.varlap_list, frame.varlap),
                        !.cast_list = Append(sc.cast_list, frame.color_cast),
                        !.sampled = sc.sampled + 1,
                        !.ocr_frames = IF do_ocr THEN sc.ocr_frames + 1 ELSE sc.ocr_frames,
                        !.ocr_logo_frames = IF do_ocr /\ logo_hit
                                            THEN sc.ocr_logo_frames + 1
                                            ELSE sc.ocr_logo_frames,
                        !.ocr_area_sum = IF do_ocr THEN sc.ocr_area_sum + text_area
                                         ELSE sc.ocr_area_sum,
                        !.ocr_times = IF do_ocr THEN Append(sc.ocr_times, t)
                                      ELSE sc.ocr_times,
                        !.next_ocr_t = IF do_ocr THEN t + Max(cfg.ocr_every_s, 1 * Scale)
                                       ELSE sc.next_ocr_t,
                        !.timeline = Append(sc.timeline,
                                            [t |-> t, v |-> frame.v_mean, s |-> frame.s_mean,
                                             varlap |-> frame.varlap, logo |-> logo_hit,
                                             text_area |-> text_area]),
                        !.i = sc.i + 1]

\* a frame is read whose index is a multiple of step
scene_read_sample ==
    /\ scene.pc = "loop"
    /\ SceneDecoded < MaxFrames
    /\ scene.i % scene.step = 0
    /\ \E frame \in Frames, engine \in EngineOutcomes(scene.ocr_backend) :
          scene' = scene_frame(scene, frame, engine)
    /\ UNCHANGED <<track, call, emo, lang, full, memo, par>>

NextScene ==
    \/ scene_open_fails
    \/ scene_open
    \/ scene_read_end
    \/ scene_read_skip
    \/ scene_read_sample


(***************************************************************************)
(* emotion_analysis/emotion_analysis.py: the temporal aggregation helpers  *)
(* (values in thousandths)                                                 *)
(***************************************************************************)

\* the ascending sort of a sequence of numbers
RECURSIVE SortAsc(_)
SortAsc(seq) ==
    IF seq = <<>> THEN <<>>
    ELSE LET k == CHOOSE a \in 1 .. Len(seq) : \A b \in 1 .. Len(seq) : seq[a] <= seq[b]
         IN  <<seq[k]>> \o SortAsc(SubSeq(seq, 1, k - 1) \o SubSeq(seq, k + 1, Len(seq)))

\* np.percentile(x, p) of a non-empty series: linear interpolation between
\* the two nearest ranks
Percentile(x, p) ==
    LET a    == SortAsc(x)
        h    == (Len(x) - 1) * p
        lo   == h \div 100
        frac == h % 100
    IN  IF frac = 0 THEN a[lo + 1]
        ELSE a[lo + 1] + (frac * (a[lo + 2] - a[lo + 1])) \div 100

\* z ** 0.85 for z in [0, 1]: the power curve at tenths, linear in between
GammaKnots == <<0, 141, 255, 359, 459, 555, 648, 738, 827, 914, 1000>>

PowGamma(z) ==
    LET k == z \div 100
        r == z % 100
    IN  IF k >= 10 THEN 1000
        ELSE GammaKnots[k + 1] + (r * (GammaKnots[k + 2] - GammaKnots[k + 1])) \div 100

\* adapt_norm(x) with its default p_lo = 5, p_hi = 85, floor = 0.20,
\* ceil = 0.98, gamma = 0.85
adapt_norm(x) ==
    IF Len(x) = 0 THEN x
    ELSE LET lo == Percentile(x, 5)
             hi == Percentile(x, 85)
         IN  IF hi <= lo
             THEN [k \in 1 .. Len(x) |-> (200 + 980) \div 2]
             ELSE [k \in 1 .. Len(x) |->
                     LET z == PowGamma(Clamp(((x[k] - lo) * Scale) \div (hi - lo), 0, Scale))
                     IN  Clamp(200 + ((980 - 200) * z) \div Scale, 0, Scale)]

\* the loop of moving_avg: q is the deque, sm the running sum
RECURSIVE moving_avg_loop(_, _, _, _, _, _)
moving_avg_loop(arr, k, idx, q, sm, out) ==
    IF idx > Len(arr) THEN out
    ELSE LET q1  == Append(q, arr[idx])
             s1  == sm + arr[idx]
             pop == Len(q1) > k
             q2  == IF pop THEN Tail(q1) ELSE q1
             s2  == IF pop THEN s1 - Head(q1) ELSE s1
         IN  moving_avg_loop(arr, k, idx + 1, q2, s2, Append(out, s2 \div Len(q2)))

\* moving_avg dividing every window sum by k
moving_avg_div_k(arr, k) ==
    IF k <= 1 \/ Len(arr) = 0 THEN arr
    ELSE [i \in 1 .. Len(arr) |-> SumSeq(SubSeq(arr, Max(1, i - k + 1), i)) \div k]

\* moving_avg(arr, k)
moving_avg(arr, k) ==
    IF k <= 1 \/ Len(arr) = 0 THEN arr
    ELSE moving_avg_loop(arr, k, 1, <<>>, 0, <<>>)

\* topk_mean_rowwise(M, k): M a sequence of rows
topk_mean_rowwise(M, k) ==
    [r \in 1 .. Len(M) |->
        LET kk == Max(1, Min(k, Len(M[r])))
            Ms == SortAsc(M[r])
        IN  Mean(SubSeq(Ms, Len(Ms) - kk + 1, Len(Ms)))]

\* the loop of peak_hold with decay in ten-thousandths
RECURSIVE peak_hold_loop(_, _, _, _, _)
peak_hold_loop(series, decay, idx, peak, out) ==
    IF idx > Len(series) THEN out
    ELSE LET p == Max(series[idx], (peak * decay) \div 10000)
         IN  peak_hold_loop(series, decay, idx + 1, p, Append(out, p))

\* decay = exp(-1 / (tau_s * fps)) in ten-thousandths, for tau_s = 1.0 and the
\* sample rates (thousandths of a Hz) the model's configs reach
Decay(fps) ==
    IF fps >= 2000 THEN 6065
    ELSE IF fps >= 1000 THEN 3679
    ELSE IF fps >= 500 THEN 1353
    ELSE 0

\* peak_hold with the peak never decaying
peak_hold_no_decay(series, fps) == peak_hold_loop(series, 10000, 1, 0, <<>>)

\* peak_hold(series, tau_s = 1.0, fps)
peak_hold(series, fps) == peak_hold_loop(series, Decay(fps), 1, 0, <<>>)

\* largest r with r * r <= n
ISqrt(n) == CHOOSE r \in 0 .. 200 : r * r <= n /\ n < (r + 1) * (r + 1)

\* np.hypot on whole pixel offsets
Hypot(dx, dy) == ISqrt(dx * dx + dy * dy)

Abs(x) == IF x < 0 THEN 0 - x ELSE x

(***************************************************************************)
(* emotion_analysis: extract_face_metrics and the loop of analyze_emotion  *)
(***************************************************************************)

\* EmotionConfig(): the fields analyze_emotion reads, at their defaults
\* (rates, weights and thresholds in thousandths, spans in ms).  The
\* dataclass has no calibration_mode, score_floor or score_ceiling: getattr
\* supplies "none", 0.0 and 100.0.
EmotionConfig ==
    [ sample_fps |-> 1 * Scale, smooth_window_s |-> 1200, autoscale_enabled |-> TRUE,
      w_valence |-> 550, w_energy |-> 450, w_smile |-> 600, w_eye_open |-> 400,
      low_valence_thresh |-> 400, high_valence_thresh |-> 700,
      low_energy_thresh |-> 400, high_energy_thresh |-> 700,
      min_span_s |-> 4 * Scale,
      calibration_mode |-> "none", score_floor |-> 0, score_ceiling |-> 100,
      calib_gain |-> 1000, calib_bias |-> 0, target_mean |-> 800, target_strength |-> 650 ]

EmotionConfigs ==
    { EmotionConfig,
      [EmotionConfig EXCEPT !.sample_fps = 2 * Scale, !.smooth_window_s = 1500] }

\* decoded frames, by what the face backends find in them: no detection; a
\* detection box without landmarks; a box (centre cx, cy and width face_w in
\* pixels) with landmarks giving the three ratios; or a frame on which the
\* extraction raises
FaceFrames ==
    { [kind |-> "none", cx |-> 0, cy |-> 0, face_w |-> 0,
       smile |-> 0, eye_open |-> 0, mouth_open |-> 0],
      [kind |-> "box", cx |-> 160, cy |-> 180, face_w |-> 100,
       smile |-> 0, eye_open |-> 0, mouth_open |-> 0],
      [kind |-> "face", cx |-> 100, cy |-> 100, face_w |-> 100,
       smile |-> 500, eye_open |-> 200, mouth_open |-> 50],
      [kind |-> "face", cx |-> 130, cy |-> 140, face_w |-> 100,
       smile |-> 300, eye_open |-> 150, mouth_open |-> 120],
      [kind |-> "face", cx |-> 100, cy |-> 140, face_w |-> 50,
       smile |-> 300, eye_open |-> 150, mouth_open |-> 120],
      [kind |-> "raise", cx |-> 0, cy |-> 0, face_w |-> 0,
       smile |-> 0, eye_open |-> 0, mouth_open |-> 0] }

EmoMetas ==
    { [fps |-> 250, frames |-> 4],
      [fps |-> 2000, frames |-> 4],
      [fps |-> 250, frames |-> 1000],
      [fps |-> 0, frames |-> 0] }

\* prev_center = None
NoCenter == <<None, None>>

\* extract_face_metrics returning the centre of the detection box also when
\* face_mesh finds no landmarks in it
extract_face_metrics_box_center(frame, prev_center) ==
    IF frame.kind = "none"
    THEN [m |-> [valid |-> FALSE], center |-> prev_center]
    ELSE IF frame.kind = "box"
    THEN [m |-> [valid |-> FALSE], center |-> <<frame.cx, frame.cy>>]
    ELSE LET head_motion ==
                 IF prev_center = NoCenter THEN 0
                 ELSE DivEps(Hypot(frame.cx - prev_center[1], frame.cy - prev_center[2]),
                             frame.face_w, Scale)
         IN  [m |-> [valid |-> TRUE, eye_open |-> frame.eye_open, smile |-> frame.smile,
                     mouth_open |-> frame.mouth_open, head_motion |-> head_motion],
              center |-> <<frame.cx, frame.cy>>]

\* extract_face_metrics(frame, prev_center, cfg, face_mesh):
\* returns (m, prev_center'); m.valid = FALSE stands for m = None
extract_face_metrics(frame, prev_center) ==
    IF frame.kind = "none" \/ frame.kind = "box"
    THEN [m |-> [valid |-> FALSE], center |-> prev_center]
    ELSE LET head_motion ==
                 IF prev_center = NoCenter THEN 0
                 ELSE DivEps(Hypot(frame.cx - prev_center[1], frame.cy - prev_center[2]),
                             frame.face_w, Scale)
         IN  [m |-> [valid |-> TRUE, eye_open |-> frame.eye_open, smile |-> frame.smile,
                     mouth_open |-> frame.mouth_open, head_motion |-> head_motion],
              center |-> <<frame.cx, frame.cy>>]

\* np.abs(np.diff(x, prepend=x[:1]))
AbsDiff(x) == [k \in 1 .. Len(x) |-> IF k = 1 THEN 0 ELSE Abs(x[k] - x[k - 1])]

\* the coverage test with "<=" for "<"
low_coverage_le(valid_frames, sampled_frames) ==
    IF valid_frames * 5 <= Max(sampled_frames, 1)
    THEN <<[start |-> 0, end |-> 0, reason |-> "low_coverage"]>>
    ELSE <<>>

\* lines 239-241: the highlight appended when detection_rate < 0.2
low_coverage(valid_frames, sampled_frames) ==
    IF valid_frames * 5 < Max(sampled_frames, 1)
    THEN <<[start |-> 0, end |-> 0, reason |-> "low_coverage"]>>
    ELSE <<>>

\* lines 141-265 of analyze_emotion: the value returned once the loop has
\* ended.  Highlight reasons: "no_face" (未检测到人脸或人脸覆盖过低),
\* "high_energy" (高能量片段), "low_energy" (能量偏低), "low_valence"
\* (积极度偏低), "low_coverage" (人脸检测覆盖低(<20%)).
emotion_result(e) ==
    IF e.valid_frames = 0
    THEN [ score |-> 0,
           signals |-> [valence_mean |-> 0, energy_mean |-> 0],
           timeline |-> <<>>,
           highlights |-> <<[start |-> 0, end |-> 0, reason |-> "no_face"]>>,
           perf |-> [frames_sampled |-> e.sampled_frames, valid_frames |-> 0,
                     detection_rate |-> 0] ]
    ELSE LET cfg     == e.config
             n       == Len(e.raw_t)
             smile_n == adapt_norm(e.raw_smile)
             eye_n   == adapt_norm(e.raw_eye)
             mouth_n == adapt_norm(e.raw_mouth)
             head_n  == adapt_norm(e.raw_head)
             eye_var   == AbsDiff(eye_n)
             mouth_var == AbsDiff(mouth_n)
             valence == [k \in 1 .. n |->
                           (cfg.w_smile * smile_n[k] + cfg.w_eye_open * eye_n[k]) \div Scale]
             C == [k \in 1 .. n |->
                     << Max(mouth_n[k], (1300 * mouth_var[k]) \div Scale), head_n[k], eye_var[k] >>]
             energy_core == topk_mean_rowwise(C, 2)
             hold    == peak_hold(energy_core, e.sample_fps)
             energy  == [k \in 1 .. n |->
                           Clamp((6 * energy_core[k] + 4 * hold[k]) \div 10, 0, Scale)]
             kwin    == Max(1, RoundDiv(cfg.smooth_window_s * e.sample_fps, Scale * Scale))
             Clip01(v) == Clamp(v, 0, Scale)
             valence_s == MapSeq(moving_avg(valence, kwin), Clip01)
             energy_s  == MapSeq(moving_avg(energy, kwin), Clip01)
             base_mean == (cfg.w_valence * Mean(valence_s) + cfg.w_energy * Mean(energy_s))
                          \div Scale
             score   == calibrate_score(base_mean, cfg)
             LowVal(v)  == v < cfg.low_valence_thresh
             LowEn(v)   == v < cfg.low_energy_thresh
             HighEn(v)  == v > cfg.high_energy_thresh
             spans_hi   == compress_runs_local(e.raw_t, MapSeq(energy_s, HighEn), cfg.min_span_s)
             spans_lo   == compress_runs_local(e.raw_t, MapSeq(energy_s, LowEn), cfg.min_span_s)
             spans_lv   == compress_runs_local(e.raw_t, MapSeq(valence_s, LowVal), cfg.min_span_s)
             detection_rate == (e.valid_frames * Scale) \div Max(e.sampled_frames, 1)
             low_cov == low_coverage(e.valid_frames, e.sampled_frames)
         IN  [ score |-> Round1(score),
               signals |-> [valence_mean |-> Mean(valence_s), energy_mean |-> Mean(energy_s)],
               timeline |-> [k \in 1 .. n |->
                               [t |-> e.raw_t[k], valence |-> valence_s[k],
                                energy |-> energy_s[k], smile |-> smile_n[k],
                                eye |-> eye_n[k], mouth |-> mouth_n[k], head |-> head_n[k]]],
               highlights |-> Spans(spans_hi, "high_energy") \o Spans(spans_lo, "low_energy")
                              \o Spans(spans_lv, "low_valence") \o low_cov,
               perf |-> [frames_sampled |-> e.sampled_frames,
                         valid_frames |-> e.valid_frames,
                         detection_rate |-> detection_rate] ]

\* the state on entry of analyze_emotion(video_path, config)
\* raw_box records, for each frame appended to the series, the centre and the
\* width of its detection box (det_center, face_w)
EmoStart(config) ==
    [ pc |-> "start", cap |-> "none", error |-> "none", config |-> config,
      fps |-> 0, total_frames |-> 0, duration |-> 0, sample_fps |-> 0, step |-> 1,
      raw_t |-> <<>>, raw_smile |-> <<>>, raw_eye |-> <<>>, raw_mouth |-> <<>>,
      raw_head |-> <<>>, raw_box |-> <<>>, sampled_frames |-> 0, valid_frames |-> 0,
      prev_center |-> NoCenter, i |-> 0,
      result |-> [score |-> None] ]

InitEmo == \E config \in EmotionConfigs : emo = EmoStart(config)

\* cv2.VideoCapture(video_path) does not open: RuntimeError
emo_open_fails ==
    /\ emo.pc = "start"
    /\ emo' = [emo EXCEPT !.pc = "raised", !.error = "open", !.cap = "unopened"]
    /\ UNCHANGED <<track, call, scene, lang, full, memo, par>>

\* lines 88-94: the sampling rate after autoscaling, duration in ms
emotion_sample_fps(config, duration) ==
    IF ~config.autoscale_enabled THEN config.sample_fps
    ELSE IF duration >= 60 * 60 * Scale THEN Min(config.sample_fps, 500)
    ELSE IF duration >= 30 * 60 * Scale THEN Min(config.sample_fps, 1000)
    ELSE config.sample_fps

\* lines 80-115: open, read the metadata, autoscale the rate, derive the step
emo_open ==
    /\ emo.pc = "start"
    /\ \E meta \in EmoMetas :
         LET fps          == IF meta.fps = 0 THEN 30 * Scale ELSE meta.fps
             total_frames == meta.frames
             duration     == IF total_frames > 0
                             THEN (total_frames * Scale * Scale) \div fps ELSE 0
             sample_fps   == emotion_sample_fps(emo.config, duration)
             step         == Max(RoundDiv(fps, sample_fps), 1)
         IN  emo' = [emo EXCEPT !.pc = "loop", !.cap = "open", !.fps = fps,
                                !.total_frames = total_frames, !.duration = duration,
                                !.sample_fps = sample_fps, !.step = step]
    /\ UNCHANGED <<track, call, scene, lang, full, memo, par>>

\* cap.read() returns ret = False: the loop breaks, the handle is released and
\* the result is built
emo_read_end ==
    /\ emo.pc = "loop"
    /\ emo' = [emo EXCEPT !.pc = "done", !.cap = "released",
                          !.result = emotion_result(emo)]
    /\ UNCHANGED <<track, call, scene, lang, full, memo, par>>

\* a frame is read whose index is not a multiple of step
emo_read_skip ==
    /\ emo.pc = "loop"
    /\ emo.i < MaxFrames
    /\ emo.i % emo.step # 0
    /\ emo' = [emo EXCEPT !.i = emo.i + 1]
    /\ UNCHANGED <<track, call, scene, lang, full, memo, par>>

\* the loop body appending zeros to the series for a frame without metrics
emo_frame_zero_fill(e, frame) ==
    LET t == (e.i * Scale * Scale) \div e.fps
        r == extract_face_metrics(frame, e.prev_center)
        m == IF r.m.valid THEN r.m
             ELSE [valid |-> FALSE, eye_open |-> 0, smile |-> 0, mouth_open |-> 0,
                   head_motion |-> 0]
    IN  IF frame.kind = "raise"
        THEN [e EXCEPT !.pc = "raised", !.error = "extract_face_metrics",
                       !.sampled_frames = e.sampled_frames + 1]
        ELSE [e EXCEPT !.sampled_frames = e.sampled_frames + 1,
                       !.prev_center = r.center,
                       !.raw_t = Append(e.raw_t, t),
                       !.raw_smile = Append(e.raw_smile, m.smile),
                       !.raw_eye = Append(e.raw_eye, m.eye_open),
                       !.raw_mouth = Append(e.raw_mouth, m.mouth_open),
                       !.raw_head = Append(e.raw_head, m.head_motion),
                       !.valid_frames = IF r.m.valid THEN e.valid_frames + 1
                                        ELSE e.valid_frames,
                       !.i = e.i + 1]

\* the loop body without the "i += 1" of the "m is None" branch
emo_frame_no_advance(e, frame) ==
    LET t == (e.i * Scale * Scale) \div e.fps
        r == extract_face_metrics(frame, e.prev_center)
    IN  IF frame.kind = "raise"
        THEN [e EXCEPT !.pc = "raised", !.error = "extract_face_metrics",
                       !.sampled_frames = e.sampled_frames + 1]
        ELSE IF ~r.m.valid
        THEN [e EXCEPT !.sampled_frames = e.sampled_frames + 1,
                       !.prev_center = r.center]
        ELSE [e EXCEPT !.sampled_frames = e.sampled_frames + 1,
                       !.prev_center = r.center,
                       !.raw_t = Append(e.raw_t, t),
                       !.raw_smile = Append(e.raw_smile, r.m.smile),
                       !.raw_eye = Append(e.raw_eye, r.m.eye_open),
                       !.raw_mouth = Append(e.raw_mouth, r.m.mouth_open),
                       !.raw_head = Append(e.raw_head, r.m.head_motion),
                       !.valid_frames = e.valid_frames + 1,
                       !.i = e.i + 1]

\* the loop body with sampled_frames counted after the "m is None" test, so
\* that only frames with face metrics are counted
emo_frame_count_after(e, frame) ==
    LET t == (e.i * Scale * Scale) \div e.fps
        r == extract_face_metrics(frame, e.prev_center)
    IN  IF frame.kind = "raise"
        THEN [e EXCEPT !.pc = "raised", !.error = "extract_face_metrics"]
        ELSE IF ~r.m.valid
        THEN [e EXCEPT !.prev_center = r.center, !.i = e.i + 1]
        ELSE [e EXCEPT !.sampled_frames = e.sampled_frames + 1,
                       !.prev_center = r.center,
                       !.raw_t = Append(e.raw_t, t),
                       !.raw_smile = Append(e.raw_smile, r.m.smile),
                       !.raw_eye = Append(e.raw_eye, r.m.eye_open),
                       !.raw_mouth = Append(e.raw_mouth, r.m.mouth_open),
                       !.raw_head = Append(e.raw_head, r.m.head_motion),
                       !.valid_frames = e.valid_frames + 1,
                       !.i = e.i + 1]

\* one pass of the loop body on a sampled frame (lines 123-137); an
\* exception of extract_face_metrics leaves analyze_emotion at once
emo_frame(e, frame) ==
    LET t == (e.i * Scale * Scale) \div e.fps
        r == extract_face_metrics(frame, e.prev_center)
    IN  IF frame.kind = "raise"
        THEN [e EXCEPT !.pc = "raised", !.error = "extract_face_metrics",
                       !.sampled_frames = e.sampled_frames + 1]
        ELSE IF ~r.m.valid
        THEN [e EXCEPT !.sampled_frames = e.sampled_frames + 1,
                       !.prev_center = r.center, !.i = e.i + 1]
        ELSE [e EXCEPT !.sampled_frames = e.sampled_frames + 1,
                       !.prev_center = r.center,
                       !.raw_t = Append(e.raw_t, t),
                       !.raw_smile = Append(e.raw_smile, r.m.smile),
                       !.raw_eye = Append(e.raw_eye, r.m.eye_open),
                       !.raw_mouth = Append(e.raw_mouth, r.m.mouth_open),
                       !.raw_head = Append(e.raw_head, r.m.head_motion),
                       !.raw_box = Append(e.raw_box, <<frame.cx, frame.cy, frame.face_w>>),
                       !.valid_frames = e.valid_frames + 1,
                       !.i = e.i + 1]

\* a frame is read whose index is a multiple of step
emo_read_sample ==
    /\ emo.pc = "loop"
    /\ emo.i < MaxFrames
    /\ emo.i % emo.step = 0
    /\ \E frame \in FaceFrames : emo' = emo_frame(emo, frame)
    /\ UNCHANGED <<track, call, scene, lang, full, memo, par>>

NextEmo ==
    \/ emo_open_fails
    \/ emo_open
    \/ emo_read_end
    \/ emo_read_skip
    \/ emo_read_sample

(***************************************************************************)
(* text_language.py: segments, lexical signals, analyze_language           *)
(***************************************************************************)

P_MODE == "saturating"

WINDOW_SECONDS == 10

QA_PAIR_MAX_GAP == 15

\* A Segment, its text given by what the lexicon and regex matchers find in
\* it: question = is_question_like; cta, deal, urg = count_cta_hits_rich;
\* answer = the number / yes-no search of detect_q_and_answers; exag = the
\* SENSITIVE_TERMS found, with repetitions; words, fillers, sentences = the
\* counts behind wpm and filler_rate; pos = the precision, disclaimer and
\* numeric-unit hits; pain = a PAIN_BENEFIT term; numeric = NUMERIC_UNIT_RE
\* matches.  start and end in ms.
Seg(start, end, question, cta, answer, exag, words, fillers, sentences, pos, numeric) ==
    [ start |-> start, end |-> end, question |-> question, cta |-> cta, deal |-> 0,
      urg |-> 0, answer |-> answer, exag |-> exag, words |-> words,
      fillers |-> fillers, sentences |-> sentences, pos |-> pos, pain |-> FALSE,
      numeric |-> numeric ]

\* "do you like this product?"
SegQuestion == Seg(0, 2000, TRUE, 0, FALSE, <<>>, 5, 1, 1, 0, FALSE)

\* "yes i love it"
SegYes == Seg(3000, 5000, FALSE, 0, TRUE, <<>>, 4, 0, 0, 0, FALSE)

\* "buy now buy now"
SegBuyNow == Seg(10000, 12000, FALSE, 2, FALSE, <<>>, 4, 0, 0, 0, FALSE)

\* "this is guaranteed to work, add to cart for $20"
SegPitch == Seg(20000, 24000, FALSE, 1, TRUE, <<"guaranteed">>, 10, 0, 0, 1, TRUE)

\* "ready? buy now"
SegAskBuy == Seg(0, 2000, TRUE, 1, FALSE, <<>>, 3, 0, 1, 0, FALSE)

\* "ready? buy now", said again in the next window
SegAskBuyAgain == Seg(12000, 14000, TRUE, 1, FALSE, <<>>, 3, 0, 1, 0, FALSE)

\* what one transcription can yield
Transcripts ==
    { <<>>,
      <<SegAskBuy, SegAskBuyAgain>>,
      <<SegQuestion>>,
      <<SegQuestion, SegYes>>,
      <<SegQuestion, SegYes, SegBuyNow>>,
      <<SegBuyNow, SegPitch>>,
      <<SegQuestion, SegBuyNow, SegPitch>> }

\* detect_q_and_answers: whether the question at index qi is answered, looking
\* from index j on
RECURSIVE q_answered_from(_, _, _, _)
q_answered_from(segments, qi, j, max_gap) ==
    IF j > Len(segments) \/ (segments[j].start - segments[qi].end) > max_gap THEN FALSE
    ELSE IF segments[j].answer THEN TRUE
    ELSE q_answered_from(segments, qi, j + 1, max_gap)

\* the inner loop with "<" for "<=" in the gap test
RECURSIVE q_answered_strict(_, _, _, _)
q_answered_strict(segments, qi, j, max_gap) ==
    IF j > Len(segments) \/ (segments[j].start - segments[qi].end) >= max_gap THEN FALSE
    ELSE IF segments[j].answer THEN TRUE
    ELSE q_answered_strict(segments, qi, j + 1, max_gap)

\* detect_q_and_answers with that inner loop
detect_q_strict_gap(segments) ==
    LET q_idx == { i \in 1 .. Len(segments) : segments[i].question }
    IN  << Cardinality(q_idx),
           Cardinality({ qi \in q_idx :
                           q_answered_strict(segments, qi, qi + 1, QA_PAIR_MAX_GAP * Scale) }) >>

\* detect_q_and_answers(segments): (len(q_idx), answered)
detect_q_and_answers(segments) ==
    LET q_idx == { i \in 1 .. Len(segments) : segments[i].question }
    IN  << Cardinality(q_idx),
           Cardinality({ qi \in q_idx :
                           q_answered_from(segments, qi, qi + 1, QA_PAIR_MAX_GAP * Scale) }) >>

\* line 412 of analyze_language, in thousandths
reply_rate_of(q_total, q_answered) ==
    IF q_total # 0 THEN (q_answered * Scale) \div Max(1, q_total) ELSE 0

\* math.ceil(a / b) for b > 0
CeilDiv(a, b) == 0 - ((0 - a) \div b)

\* the segment loop of build_timeline from index k on; acc.raised is the
\* IndexError of bins[bi] on an empty bins list
RECURSIVE build_timeline_loop(_, _, _, _)
build_timeline_loop(segments, window, k, acc) ==
    IF k > Len(segments) \/ acc.raised THEN acc
    ELSE LET sg == segments[k]
             n  == Len(acc.bins)
             bi == Min(sg.end \div window, n - 1)
             touches == sg.question \/ sg.cta > 0
             bins1 == IF sg.question /\ n > 0
                      THEN [acc.bins EXCEPT ![bi + 1].questions = @ + 1] ELSE acc.bins
             bins2 == IF sg.cta > 0 /\ n > 0
                      THEN [bins1 EXCEPT ![bi + 1].cta = @ + sg.cta] ELSE bins1
         IN  build_timeline_loop(segments, window, k + 1,
                 IF touches /\ n = 0 THEN [acc EXCEPT !.raised = TRUE]
                 ELSE [acc EXCEPT !.bins = bins2,
                                  !.q_total = IF sg.question THEN @ + 1 ELSE @,
                                  !.cta_total = @ + sg.cta])

\* build_timeline(segments): bins, question_ratio (thousandths), cta_total
build_timeline(segments) ==
    IF segments = <<>>
    THEN [raised |-> FALSE, bins |-> <<>>, question_ratio |-> 0, cta_total |-> 0]
    ELSE LET window == WINDOW_SECONDS * Scale
             max_t  == segments[Len(segments)].end
             nbins  == Max(0, CeilDiv(max_t, window))
             bins0  == [i \in 1 .. nbins |->
                          [t |-> i * window, comments |-> 0, cta |-> 0, questions |-> 0]]
             acc    == build_timeline_loop(segments, window, 1,
                          [raised |-> FALSE, bins |-> bins0, q_total |-> 0, cta_total |-> 0])
         IN  [raised |-> acc.raised, bins |-> acc.bins,
              question_ratio |-> (acc.q_total * Scale) \div Max(1, Len(segments)),
              cta_total |-> acc.cta_total]

\* the threshold without the floor max(1, ...)
Thr75_no_floor(xs) == SortAsc(xs)[((3 * (Len(xs) - 1)) \div 4) + 1]

\* sorted(xs)[int(0.75 * (len(xs) - 1))], floored at 1
Thr75(xs) == Max(1, SortAsc(xs)[((3 * (Len(xs) - 1)) \div 4) + 1])

\* the indices at which the boolean sequence holds, in order
RECURSIVE SelectIdx(_, _)
SelectIdx(flags, k) ==
    IF k > Len(flags) THEN <<>>
    ELSE (IF flags[k] THEN <<k>> ELSE <<>>) \o SelectIdx(flags, k + 1)

\* extract_highlights(timeline)
extract_highlights(timeline) ==
    IF timeline = <<>> THEN <<>>
    ELSE LET ctas    == [i \in 1 .. Len(timeline) |-> timeline[i].cta]
             qs      == [i \in 1 .. Len(timeline) |-> timeline[i].questions]
             thr_cta == Thr75(ctas)
             thr_q   == Thr75(qs)
             peak    == [i \in 1 .. Len(timeline) |->
                           timeline[i].cta >= thr_cta /\ timeline[i].questions >= thr_q]
             idx     == SelectIdx(peak, 1)
         IN  [k \in 1 .. Len(idx) |->
                [start |-> (idx[k] - 1) * WINDOW_SECONDS * Scale,
                 end |-> idx[k] * WINDOW_SECONDS * Scale,
                 reason |-> "CTA and questions peak"]]

\* count_exaggerations(segments): hits, terms and one highlight per
\* (segment, term) found
RECURSIVE count_exaggerations(_)
count_exaggerations(segments) ==
    IF segments = <<>> THEN [hits |-> 0, terms |-> <<>>, hl |-> <<>>]
    ELSE LET sg   == Head(segments)
             rest == count_exaggerations(Tail(segments))
         IN  [hits  |-> Len(sg.exag) + rest.hits,
              terms |-> sg.exag \o rest.terms,
              hl    |-> [k \in 1 .. Len(sg.exag) |->
                           [start |-> sg.start, end |-> sg.end, term |-> sg.exag[k]]]
                        \o rest.hl]

\* sum of f over the segments
SumOver(segments, f(_)) == SumSeq([i \in 1 .. Len(segments) |-> f(segments[i])])

\* twice the weighted persuasion hits of one segment (BONUS_DEAL and
\* BONUS_URGENCY are 0.5, BONUS_STRUCTURE and BONUS_EVIDENCE 1.0)
weighted_hits2(sg) ==
    2 * sg.cta + sg.deal + sg.urg
    + (IF sg.cta > 0 /\ sg.pain THEN 2 ELSE 0)
    + (IF sg.cta > 0 /\ sg.numeric THEN 2 ELSE 0)

\* lines 409-493 of analyze_language, from the transcribed segments and the
\* debug block transcribe_to_segments left; raised = an exception left it
analyze_result(segments, dbg) ==
    LET tl         == build_timeline(segments)
        qa         == detect_q_and_answers(segments)
        reply_rate == reply_rate_of(qa[1], qa[2])
        inter_score == interaction_score(tl.question_ratio, tl.cta_total, reply_rate)
        ex         == count_exaggerations(segments)
        compliance_raw == score_compliance_from_hits_exp(ex.hits)
        Words(sg)  == sg.words
        Fill(sg)   == sg.fillers
        Sent(sg)   == sg.sentences
        Pos(sg)    == sg.pos
        n          == Len(segments)
        \* minutes, in ms of speech
        span_ms    == IF n >= 2 THEN segments[n].end - segments[1].start ELSE 60 * Scale
        wpm        == DivEps(SumOver(segments, Words) * 60 * Scale, span_ms, 1)
        filler_rate == (SumOver(segments, Fill) * Scale)
                       \div Max(1, SumOver(segments, Sent))
        \* the bell is evaluated at the nearest 30-wpm step from the target
        wpm_k      == IF wpm >= CL_WPM_TARGET
                      THEN Min(RoundDiv(wpm - CL_WPM_TARGET, 30), 20)
                      ELSE 0 - RoundDiv(CL_WPM_TARGET - wpm, 30)
        accuracy_raw   == score_accuracy_independent(SumOver(segments, Pos))
        clarity_raw    == score_clarity_from_signals(filler_rate, wpm_k)
        persuasion_raw == score_persuasion_from_cta(P_MODE,
                              RoundDiv(SumOver(segments, weighted_hits2), 2))
    IN  IF tl.raised THEN [raised |-> TRUE]
        ELSE [ raised |-> FALSE,
               lang_interaction |->
                   [ score |-> Round1(inter_score),
                     signals |-> [comments_per_min |-> 0,
                                  question_ratio |-> tl.question_ratio,
                                  cta_hits |-> tl.cta_total,
                                  reply_rate |-> reply_rate],
                     timeline |-> tl.bins,
                     highlights |-> extract_highlights(tl.bins) ],
               lang_exaggeration |->
                   [ score |-> Round1(compliance_raw),
                     signals |-> [exaggeration_hits |-> ex.hits, terms |-> ex.terms,
                                  negation_exempted |-> 0, category_overrides |-> 0],
                     highlights |-> ex.hl ],
               lang_scores |->
                   [ accuracy |-> Round1(remap_with_baseline(accuracy_raw)),
                     clarity |-> Round1(remap_with_baseline(clarity_raw)),
                     persuasion |-> Round1(remap_with_baseline(persuasion_raw)),
                     wpm |-> wpm, filler_rate |-> filler_rate,
                     accuracy_raw |-> Round1(accuracy_raw),
                     clarity_raw |-> Round1(clarity_raw),
                     persuasion_raw |-> Round1(persuasion_raw) ],
               debug |-> dbg ]

(***************************************************************************)
(* text_language.py: _load_asr, transcribe_to_segments, analyze_language   *)
(***************************************************************************)

\* the longest transcript a backend yields
MaxSegs == 3

\* SubSeq(tr, 1, k) for every k: what a generator has yielded when it stops
Prefixes(tr) == { SubSeq(tr, 1, k) : k \in 0 .. Len(tr) }

\* model.transcribe(...) and the loop over what it yields.  faster-whisper
\* yields lazily, so an exception can follow any number of appended segments;
\* openai-whisper returns the whole list or raises before the loop.
TranscribeOutcomes(backend) ==
    LET trs == { tr \in Transcripts : Len(tr) <= MaxSegs }
    IN  IF backend = "faster"
        THEN { [segs |-> tr, raised |-> FALSE] : tr \in trs }
             \cup { [segs |-> pre, raised |-> TRUE] :
                      pre \in UNION { Prefixes(tr) : tr \in trs } }
        ELSE IF backend = "openai"
        THEN { [segs |-> tr, raised |-> FALSE] : tr \in trs }
             \cup { [segs |-> <<>>, raised |-> TRUE] }
        ELSE { [segs |-> <<>>, raised |-> FALSE] }

NoDebug == [set |-> FALSE]

\* the state on entry of analyze_language(video_path); backend is _BACKEND,
\* asr_cache the module global, last_debug the function attribute
LangStart(backend) ==
    [ pc |-> "start", backend |-> backend, asr_cache |-> "none",
      segs |-> <<>>, used_fallback |-> FALSE, err_msg |-> <<>>,
      wav |-> "unset", transcribe_calls |-> 0, last_debug |-> NoDebug,
      error |-> "none", result |-> [raised |-> FALSE, empty |-> TRUE] ]

InitLang == \E backend \in {"none", "faster", "openai"} : lang = LangStart(backend)

\* whether the language actions run: alone, or as the first stage of
\* run_full_analysis
LangRuns == track = "lang" \/ (track = "full" /\ full.pc = "language")

\* line 195, model = _load_asr(): outside every try, so an exception of the
\* model constructor leaves transcribe_to_segments and analyze_language
lang_load_asr ==
    /\ LangRuns
    /\ lang.pc = "start"
    /\ \/ /\ lang.backend = "none" \/ lang.asr_cache = "model"
          /\ lang' = [lang EXCEPT !.pc = "direct"]
       \/ /\ lang.backend # "none" /\ lang.asr_cache = "none"
          /\ lang' = [lang EXCEPT !.pc = "direct", !.asr_cache = "model"]
       \/ /\ lang.backend # "none" /\ lang.asr_cache = "none"
          /\ lang' = [lang EXCEPT !.pc = "raised", !.error = "_load_asr"]
    /\ UNCHANGED <<track, call, scene, emo, full, memo, par>>

\* lines 199-211: the direct attempt on the video file
lang_direct ==
    /\ LangRuns
    /\ lang.pc = "direct"
    /\ \E o \in TranscribeOutcomes(lang.backend) :
          lang' = [lang EXCEPT
                     !.pc = IF o.segs = <<>> THEN "fallback" ELSE "analyze",
                     !.segs = o.segs,
                     !.transcribe_calls = IF lang.backend = "none" THEN @ ELSE @ + 1,
                     !.err_msg = IF lang.backend = "none" THEN <<"no_backend">>
                                 ELSE IF o.raised THEN <<"direct_error">> ELSE <<>>]
    /\ UNCHANGED <<track, call, scene, emo, full, memo, par>>

\* lines 213-232 with the second transcription also made when
\* _extract_audio_wav returned None
lang_fallback_without_wav ==
    /\ LangRuns
    /\ lang.pc = "fallback"
    /\ \E o \in TranscribeOutcomes(lang.backend), wav \in {"none", "file"} :
          lang' = [lang EXCEPT
                     !.pc = "analyze",
                     !.wav = wav,
                     !.used_fallback = (wav = "file"),
                     !.segs = o.segs,
                     !.transcribe_calls = IF lang.backend = "none" THEN @ ELSE @ + 1,
                     !.err_msg = IF o.raised THEN Append(@, "fallback_error") ELSE @]
    /\ UNCHANGED <<track, call, scene, emo, full, memo, par>>

\* lines 213-232: no segment so far; _extract_audio_wav returns None (no
\* audio, or any exception inside it) or a wav that is transcribed in turn;
\* used_fallback is set before the branch on _BACKEND, which has no else
lang_fallback ==
    /\ LangRuns
    /\ lang.pc = "fallback"
    /\ \/ lang' = [lang EXCEPT !.pc = "analyze", !.wav = "none"]
       \/ \E o \in TranscribeOutcomes(lang.backend) :
             lang' = [lang EXCEPT
                        !.pc = "analyze",
                        !.wav = "file",
                        !.used_fallback = TRUE,
                        !.segs = o.segs,
                        !.transcribe_calls = IF lang.backend = "none" THEN @ ELSE @ + 1,
                        !.err_msg = IF o.raised THEN Append(@, "fallback_error") ELSE @]
    /\ UNCHANGED <<track, call, scene, emo, full, memo, par>>

\* lines 234-241 of transcribe_to_segments, then lines 409-493 of
\* analyze_language
lang_analyze ==
    /\ LangRuns
    /\ lang.pc = "analyze"
    /\ LET dbg == [ set |-> TRUE, backend |-> lang.backend,
                    segments_count |-> Len(lang.segs),
                    used_fallback_audio |-> lang.used_fallback,
                    error |-> lang.err_msg ]
           res == analyze_result(lang.segs, dbg)
       IN  lang' = IF res.raised
                   THEN [lang EXCEPT !.pc = "raised", !.error = "build_timeline",
                                     !.last_debug = dbg]
                   ELSE [lang EXCEPT !.pc = "done", !.last_debug = dbg,
                                     !.result = res]
    /\ UNCHANGED <<track, call, scene, emo, full, memo, par>>

NextLang ==
    \/ lang_load_asr
    \/ lang_direct
    \/ lang_fallback
    \/ lang_analyze

(***************************************************************************)
(* ui_api.py, vision.py, analyzer.py, backend_api.py: run_full_analysis    *)
(***************************************************************************)

\* dict.get(k, d) and dict.setdefault(k, d) on dicts as functions over their keys
Get(r, k, d) == IF k \in DOMAIN r THEN r[k] ELSE d

SetDefault(r, k, d) == IF k \in DOMAIN r THEN r ELSE r @@ (k :> d)

\* the literals {} and [] (0.0 and 0 are both 0)
EmptyDict == <<>>

EmptyList == <<>>

\* lines 116-119: the defaults of lang_interaction["signals"]
default_signals_interaction(sig) ==
    SetDefault(SetDefault(SetDefault(SetDefault(sig,
        "comments_per_min", 0), "question_ratio", 0), "cta_hits", 0), "reply_rate", 0)

\* lines 125-128: the defaults of lang_exaggeration["signals"]
default_signals_exaggeration(sig) ==
    SetDefault(SetDefault(SetDefault(SetDefault(sig,
        "exaggeration_hits", 0), "terms", EmptyList), "negation_exempted", 0),
        "category_overrides", 0)

\* _normalize_bundle(res): each of the four sections is res.get(name, {}) or
\* {}, then setdefault on the keys below; the signals dict is defaulted in
\* place
normalize_bundle(res) ==
    LET li0 == Get(res, "lang_interaction", EmptyDict)
        le0 == Get(res, "lang_exaggeration", EmptyDict)
        ls0 == Get(res, "lang_scores", EmptyDict)
        dbg == Get(res, "debug", EmptyDict)
        li1 == SetDefault(SetDefault(SetDefault(SetDefault(li0,
                   "score", 0), "signals", EmptyDict), "timeline", EmptyList),
                   "highlights", EmptyList)
        li  == [li1 EXCEPT !["signals"] = default_signals_interaction(li1["signals"])]
        le1 == SetDefault(SetDefault(SetDefault(le0,
                   "score", 0), "signals", EmptyDict), "highlights", EmptyList)
        le  == [le1 EXCEPT !["signals"] = default_signals_exaggeration(le1["signals"])]
        ls  == SetDefault(SetDefault(SetDefault(SetDefault(SetDefault(ls0,
                   "accuracy", 0), "clarity", 0), "persuasion", 0), "wpm", 0),
                   "filler_rate", 0)
    IN  [ lang_interaction |-> li,
          lang_exaggeration |-> le,
          lang_scores |-> ls,
          debug |-> dbg ]

\* _score_brightness(avg_bri): 60..200 mapped linearly on 50..100, clamped
score_brightness(avg_bri) ==
    Clamp(50 * Scale + ((avg_bri - 60 * Scale) * 50) \div 140, 0, Full)

\* analyze_video(video_path) of analyzer.py, from the sampled gray means
visual_result(vals) ==
    LET avg_bri == IF vals = <<>> THEN 0 ELSE Mean(vals)
    IN  [avg_brightness |-> avg_bri, brightness_score |-> score_brightness(avg_bri)]

\* CAP_PROP_FPS as the container reports it (0 when unknown)
VisualFps == {0, 2, 25}

\* np.mean(gray) of a retrieved frame
GrayMeans == {40 * Scale, 200 * Scale}

NoBundle == [empty |-> TRUE]

\* the state on entry of run_full_analysis(uploaded_file)
FullStart ==
    [ pc |-> "save", tmp_dir |-> "none", error |-> "none",
      lang_bundle |-> NoBundle, cap |-> "none", step |-> 1, frame_idx |-> 0,
      vals |-> <<>>, result |-> NoBundle ]

InitFull == full = FullStart

\* line 26: save_upload_to_tempfile
full_save ==
    /\ track = "full"
    /\ full.pc = "save"
    /\ full' = [full EXCEPT !.pc = "language", !.tmp_dir = "present"]
    /\ UNCHANGED <<track, call, scene, emo, lang, memo, par>>

\* line 29: run_language_analysis(tmp_path) returns the normalized bundle, or
\* its exception passes through the finally clause
full_language_end ==
    /\ track = "full"
    /\ full.pc = "language"
    /\ lang.pc \in {"done", "raised"}
    /\ full' = IF lang.pc = "done"
               THEN [full EXCEPT !.pc = "visual",
                                 !.lang_bundle = normalize_bundle(lang.result)]
               ELSE [full EXCEPT !.pc = "raised", !.error = lang.error,
                                 !.tmp_dir = "removed"]
    /\ UNCHANGED <<track, call, scene, emo, lang, memo, par>>

\* the exception of average_brightness leaves analyze_video and the try block
\* of run_full_analysis: the finally clause removes the directory, the return
\* statement is never reached and lang_bundle goes out of scope
full_raise(f, what) ==
    [f EXCEPT !.pc = "raised", !.error = what, !.tmp_dir = "removed",
              !.lang_bundle = NoBundle]

\* vision.py lines 8-10: the capture does not open
full_visual_open_fails ==
    /\ track = "full"
    /\ full.pc = "visual"
    /\ full' = full_raise([full EXCEPT !.cap = "unopened"], "open")
    /\ UNCHANGED <<track, call, scene, emo, lang, memo, par>>

\* vision.py lines 8-13: the capture opens; fps or 25, step
full_visual_open ==
    /\ track = "full"
    /\ full.pc = "visual"
    /\ \E fps \in VisualFps :
          full' = [full EXCEPT !.pc = "frames", !.cap = "open",
                               !.step = Max(IF fps = 0 THEN 25 ELSE fps, 1)]
    /\ UNCHANGED <<track, call, scene, emo, lang, memo, par>>

\* the break of the loop, cap.release(), the result of analyze_video, the
\* finally clause and the return of run_full_analysis
full_return(f) ==
    [f EXCEPT !.pc = "returned", !.cap = "released", !.tmp_dir = "removed",
              !.result = [language |-> f.lang_bundle,
                          visual |-> visual_result(f.vals)]]

\* cap.grab() fails: end of the stream
full_visual_grab_fails ==
    /\ track = "full"
    /\ full.pc = "frames"
    /\ full' = full_return(full)
    /\ UNCHANGED <<track, call, scene, emo, lang, memo, par>>

\* a grabbed frame whose index is not a multiple of step
full_visual_skip ==
    /\ track = "full"
    /\ full.pc = "frames"
    /\ full.frame_idx < MaxFrames
    /\ full.frame_idx % full.step # 0
    /\ full' = [full EXCEPT !.frame_idx = @ + 1]
    /\ UNCHANGED <<track, call, scene, emo, lang, memo, par>>

\* a grabbed frame whose index is a multiple of step: retrieve fails (break),
\* or the frame is converted and averaged, or the conversion raises
full_visual_sample ==
    /\ track = "full"
    /\ full.pc = "frames"
    /\ full.frame_idx < MaxFrames
    /\ full.frame_idx % full.step = 0
    /\ \/ full' = full_return(full)
       \/ \E g \in GrayMeans :
             full' = [full EXCEPT !.vals = Append(@, g), !.frame_idx = @ + 1]
       \/ full' = full_raise(full, "cvtColor")
    /\ UNCHANGED <<track, call, scene, emo, lang, memo, par>>

NextFull ==
    \/ full_save
    \/ full_language_end
    \/ full_visual_open_fails
    \/ full_visual_open
    \/ full_visual_grab_fails
    \/ full_visual_skip
    \/ full_visual_sample

(***************************************************************************)
(* ui_api.py: run_language_analysis under functools.lru_cache              *)
(***************************************************************************)

\* @lru_cache(maxsize=8)
CACHE_MAXSIZE == 8

\* the distinct video paths a process asks for, and the calls it makes
NumPaths == 9

MaxCalls == 10

\* the calls of a run that name a path asked for before, and those that raise
MaxRepeats == 2

MaxRaises == 1

\* the cache keys from the least to the most recently used, the number of
\* times analyze_language ran for each path, and the last call
MemoStart ==
    [ cache |-> <<>>, order |-> <<>>, computed |-> [p \in 1 .. NumPaths |-> 0],
      ncalls |-> 0, nrepeats |-> 0, nraises |-> 0,
      last |-> [path |-> 0, outcome |-> "none"] ]

IdleMemo == [ncalls |-> 0 - 1]

InitMemo == memo = MemoStart

\* the sequence without its occurrences of p
RECURSIVE Without(_, _)
Without(q, p) ==
    IF q = <<>> THEN <<>>
    ELSE (IF Head(q) = p THEN <<>> ELSE <<Head(q)>>) \o Without(Tail(q), p)

InSeq(q, p) == \E k \in 1 .. Len(q) : q[k] = p

\* a cache without eviction
lru_put_unbounded(cache, p) == Append(cache, p)

\* a miss stores the new key as the most recent one and, beyond maxsize,
\* drops the least recently used
lru_put(cache, p) ==
    IF Len(cache) >= CACHE_MAXSIZE THEN Append(Tail(cache), p) ELSE Append(cache, p)

\* a hit makes the key the most recent one
lru_touch(cache, p) == Append(Without(cache, p), p)

\* the paths a call may name: the next new one (paths differ only by name),
\* the least and the most recently used of the cached ones, and every path
\* asked for before that is not cached
CallPaths ==
    LET seen == Cardinality({ p \in 1 .. NumPaths : memo.computed[p] > 0 })
        c == memo.cache
        old == (IF c = <<>> THEN {} ELSE {c[1], c[Len(c)]})
               \cup { p \in 1 .. NumPaths : memo.computed[p] > 0 /\ ~InSeq(c, p) }
    IN  (IF seen < NumPaths THEN {seen + 1} ELSE {})
        \cup (IF memo.nrepeats < MaxRepeats THEN old ELSE {})

\* the call names a path asked for before
Repeats(p) == IF memo.computed[p] > 0 THEN 1 ELSE 0

MemoRuns == track = "memo" /\ memo.ncalls < MaxCalls

\* the key is cached: the bundle is returned, analyze_language does not run
run_language_analysis_hit ==
    /\ MemoRuns
    /\ \E p \in CallPaths :
          /\ InSeq(memo.cache, p)
          /\ memo' = [memo EXCEPT !.cache = lru_touch(memo.cache, p),
                                  !.order = lru_touch(memo.order, p),
                                  !.ncalls = @ + 1,
                                  !.nrepeats = @ + Repeats(p),
                                  !.last = [path |-> p, outcome |-> "hit"]]
    /\ UNCHANGED <<track, call, scene, emo, lang, full, par>>

\* the key is not cached: analyze_language runs and its normalised bundle is
\* stored
run_language_analysis_miss ==
    /\ MemoRuns
    /\ \E p \in CallPaths :
          /\ ~InSeq(memo.cache, p)
          /\ memo' = [memo EXCEPT !.cache = lru_put(memo.cache, p),
                                  !.order = lru_touch(memo.order, p),
                                  !.computed[p] = @ + 1,
                                  !.ncalls = @ + 1,
                                  !.nrepeats = @ + Repeats(p),
                                  !.last = [path |-> p, outcome |-> "miss"]]
    /\ UNCHANGED <<track, call, scene, emo, lang, full, par>>

\* the key is not cached and analyze_language raises: nothing is stored
run_language_analysis_raises ==
    /\ MemoRuns
    /\ memo.nraises < MaxRaises
    /\ \E p \in CallPaths :
          /\ ~InSeq(memo.cache, p)
          /\ memo' = [memo EXCEPT !.computed[p] = @ + 1,
                                  !.nraises = @ + 1,
                                  !.ncalls = @ + 1,
                                  !.nrepeats = @ + Repeats(p),
                                  !.last = [path |-> p, outcome |-> "raised"]]
    /\ UNCHANGED <<track, call, scene, emo, lang, full, par>>

NextMemo ==
    \/ run_language_analysis_hit
    \/ run_language_analysis_miss
    \/ run_language_analysis_raises

(***************************************************************************)
(* text_language.py: two analyze_language calls in one process             *)
(***************************************************************************)

\* the calls (threads) of the process
Callers == {1, 2}

\* what one transcribe_to_segments call computes before line 234: len(segs),
\* used_fallback and err_msg
DebugOutcomes ==
    { [segments_count |-> 2, used_fallback_audio |-> FALSE, error |-> "none"],
      [segments_count |-> 1, used_fallback_audio |-> TRUE, error |-> "direct"],
      [segments_count |-> 3, used_fallback_audio |-> TRUE, error |-> "none"],
      [segments_count |-> 0, used_fallback_audio |-> TRUE, error |-> "direct|fallback"] }

\* no _last_debug attribute yet: getattr(..., "_last_debug", {}) gives {}
UnsetDebug == [segments_count |-> 0 - 1, used_fallback_audio |-> FALSE, error |-> "unset"]

\* last_debug is the function attribute transcribe_to_segments._last_debug,
\* shared by every call; own and debug are locals of each call
ParStart ==
    [ last_debug |-> UnsetDebug,
      pc |-> [c \in Callers |-> "start"],
      own |-> [c \in Callers |-> UnsetDebug],
      debug |-> [c \in Callers |-> UnsetDebug] ]

IdlePar == [pc |-> [c \in Callers |-> "idle"]]

InitPar == par = ParStart

\* lines 186-232: the call transcribes its own video
par_transcribe(c) ==
    /\ track = "par"
    /\ par.pc[c] = "start"
    /\ \E o \in DebugOutcomes :
          par' = [par EXCEPT !.pc[c] = "transcribed", !.own[c] = o]
    /\ UNCHANGED <<track, call, scene, emo, lang, full, memo>>

\* lines 234-241: transcribe_to_segments._last_debug = {...}; return segs
par_store_debug(c) ==
    /\ track = "par"
    /\ par.pc[c] = "transcribed"
    /\ par' = [par EXCEPT !.pc[c] = "analysing", !.last_debug = par.own[c]]
    /\ UNCHANGED <<track, call, scene, emo, lang, full, memo>>

\* lines 490-493: result["debug"] = getattr(transcribe_to_segments,
\* "_last_debug", {}); return result
par_read_debug(c) ==
    /\ track = "par"
    /\ par.pc[c] = "analysing"
    /\ par' = [par EXCEPT !.pc[c] = "done", !.debug[c] = par.last_debug]
    /\ UNCHANGED <<track, call, scene, emo, lang, full, memo>>

NextPar ==
    \E c \in Callers :
        \/ par_transcribe(c)
        \/ par_store_debug(c)
        \/ par_read_debug(c)

(***************************************************************************)
(* Direct calls of the helpers of the tracks                               *)
(***************************************************************************)

\* a complete language result with no field at its default
FullInteraction ==
    [ score |-> 61500,
      signals |-> [comments_per_min |-> 2000, question_ratio |-> 500,
                   cta_hits |-> 3, reply_rate |-> 250],
      timeline |-> << [t |-> 0, comments |-> 1, questions |-> 1, cta |-> 1] >>,
      highlights |-> << [start |-> 0, end |-> 10 * Scale,
                         reason |-> "CTA and questions peak"] >> ]

FullExaggeration ==
    [ score |-> 74100,
      signals |-> [exaggeration_hits |-> 2, terms |-> <<"best">>,
                   negation_exempted |-> 1, category_overrides |-> 1],
      highlights |-> << [start |-> 0, end |-> 2 * Scale, term |-> "best"] >> ]

FullScores ==
    [ accuracy |-> 70000, clarity |-> 88000, persuasion |-> 55300,
      wpm |-> 150000, filler_rate |-> 20,
      accuracy_raw |-> 50000, clarity_raw |-> 80000, persuasion_raw |-> 25500 ]

FullDebug == [backend |-> "whisper", segments_count |-> 2]

\* the dicts holding any subset of the keys of r
SubDicts(r) == { [k \in S |-> r[k]] : S \in SUBSET (DOMAIN r) }

\* the sections with any subset of their keys and of the keys of signals
PartialSections(section, sigs) ==
    { IF "signals" \in DOMAIN p THEN [p EXCEPT !["signals"] = sg] ELSE p :
          p \in SubDicts(section), sg \in sigs }

\* a key left out (<<>>) or given (<<v>>)
Opt(S) == {<<>>} \cup { <<v>> : v \in S }

With(r, k, o) == IF Len(o) = 0 THEN r ELSE r @@ (k :> o[1])

MkRes(li, le, ls, dbg) ==
    With(With(With(With(EmptyDict, "lang_interaction", li),
        "lang_exaggeration", le), "lang_scores", ls), "debug", dbg)

\* language results with one section ranging over all its partial forms, the
\* others absent, empty or complete
NormalizeInputs ==
    { MkRes(li, le, ls, dbg) :
        li \in Opt(PartialSections(FullInteraction, SubDicts(FullInteraction.signals))),
        le \in Opt({EmptyDict, FullExaggeration}),
        ls \in Opt({EmptyDict, FullScores}),
        dbg \in Opt({FullDebug}) }
    \cup
    { MkRes(li, le, ls, dbg) :
        li \in Opt({EmptyDict, FullInteraction}),
        le \in Opt(PartialSections(FullExaggeration, SubDicts(FullExaggeration.signals))),
        ls \in Opt({EmptyDict, FullScores}),
        dbg \in Opt({FullDebug}) }
    \cup
    { MkRes(li, le, ls, dbg) :
        li \in Opt({EmptyDict, FullInteraction}),
        le \in Opt({EmptyDict, FullExaggeration}),
        ls \in Opt(SubDicts(FullScores)),
        dbg \in Opt({FullDebug}) }

Call_normalize_bundle ==
    /\ track = "scores"
    /\ call.fn = "none"
    /\ \E res \in NormalizeInputs :
          call' = [fn |-> "normalize_bundle", args |-> <<res>>,
                   out |-> normalize_bundle(res)]
    /\ UNCHANGED <<track, scene, emo, lang, full, memo, par>>

\* values of a normalised series, in thousandths
SeriesValues == {0, 300, 1000}

RECURSIVE SeqsUpTo(_, _)
SeqsUpTo(S, n) ==
    IF n = 0 THEN {<<>>}
    ELSE LET shorter == SeqsUpTo(S, n - 1)
         IN  shorter \cup { Append(q, v) : q \in shorter, v \in S }

Call_moving_avg ==
    /\ track = "scores"
    /\ call.fn = "none"
    /\ \E arr \in SeqsUpTo(SeriesValues, MaxLen), k \in 0 .. MaxLen + 1 :
          call' = [fn |-> "moving_avg", args |-> <<arr, k>>,
                   out |-> moving_avg(arr, k)]
    /\ UNCHANGED <<track, scene, emo, lang, full, memo, par>>

\* the sampling rates analyze_emotion passes as fps
HoldRates == {500, 1000, 2000}

Call_peak_hold ==
    /\ track = "scores"
    /\ call.fn = "none"
    /\ \E series \in SeqsUpTo(SeriesValues, MaxLen), fps \in HoldRates :
          call' = [fn |-> "peak_hold", args |-> <<series, fps>>,
                   out |-> peak_hold(series, fps)]
    /\ UNCHANGED <<track, scene, emo, lang, full, memo, par>>

\* start times (ms) of 2 s segments: overlapping the first one, and 15 s and
\* 15.001 s after its end
StartGrid == {0, 1000, 17000, 17001, 40000}

\* segments by what detect_q_and_answers reads of them
QASegs ==
    { Seg(st, st + 2000, q, 0, a, <<>>, 4, 0, 0, 0, FALSE) :
        st \in StartGrid, q \in BOOLEAN, a \in BOOLEAN }

\* segment lists in the order of their start times
OrderedSegLists ==
    { sl \in SeqsUpTo(QASegs, MaxSegs) :
        \A i \in 1 .. Len(sl) - 1 : sl[i].start <= sl[i + 1].start }

\* lines 411-412 of analyze_language: the two counts and the reply rate
Call_detect_q_and_answers ==
    /\ track = "scores"
    /\ call.fn = "none"
    /\ \E segments \in OrderedSegLists :
          LET qa == detect_q_and_answers(segments)
          IN  call' = [fn |-> "detect_q_and_answers", args |-> <<segments>>,
                       out |-> <<qa[1], qa[2], reply_rate_of(qa[1], qa[2])>>]
    /\ UNCHANGED <<track, scene, emo, lang, full, memo, par>>

\* durations in ms on both sides of the 10, 30 and 60 minute marks
DurGrid ==
    {0, 599999, 600000, 600001, 1799999, 1800000, 1800001,
     3599999, 3600000, 3600001, 7200000}

\* sampling rates (thousandths of a Hz) and OCR intervals (ms) a caller sets
RateGrid == {100, 200, 330, 400, 500, 800, 1000, 2000}

OcrEveryGrid == {2000, 8000, 10000, 12000, 20000, 30000}

Call_autoscale_config ==
    /\ track = "scores"
    /\ call.fn = "none"
    /\ \E r \in RateGrid, o \in OcrEveryGrid, en \in BOOLEAN, d \in DurGrid :
         LET cfg == [SceneConfig EXCEPT !.sample_fps = r, !.ocr_every_s = o,
                                        !.autoscale_enabled = en]
         IN  call' = [fn |-> "autoscale_config", args |-> <<cfg, d>>,
                      out |-> autoscale_config(cfg, d)]
    /\ UNCHANGED <<track, scene, emo, lang, full, memo, par>>

Call_emotion_sample_fps ==
    /\ track = "scores"
    /\ call.fn = "none"
    /\ \E r \in RateGrid, en \in BOOLEAN, d \in DurGrid :
         LET cfg == [EmotionConfig EXCEPT !.sample_fps = r, !.autoscale_enabled = en]
         IN  call' = [fn |-> "emotion_sample_fps", args |-> <<cfg, d>>,
                      out |-> emotion_sample_fps(cfg, d)]
    /\ UNCHANGED <<track, scene, emo, lang, full, memo, par>>

\* the longest timeline offered to extract_highlights
MaxBins == 3

\* the counts one bucket can hold
BinCounts == {0, 1, 2}

\* timelines as build_timeline lays them out, t the end of the bucket
Timelines ==
    { [i \in 1 .. Len(cs) |->
          [t |-> i * WINDOW_SECONDS * Scale, comments |-> 0,
           cta |-> cs[i][1], questions |-> cs[i][2]]] :
        cs \in SeqsUpTo(BinCounts \X BinCounts, MaxBins) }

Call_extract_highlights ==
    /\ track = "scores"
    /\ call.fn = "none"
    /\ \E timeline \in Timelines :
          call' = [fn |-> "extract_highlights", args |-> <<timeline>>,
                   out |-> extract_highlights(timeline)]
    /\ UNCHANGED <<track, scene, emo, lang, full, memo, par>>

\* the most frames sampled and the most valid ones in a finished loop
\* offered to the result stage
MaxSampled == 16

MaxValid == 3

\* the state of analyze_emotion after a loop at 1 Hz that sampled n frames
\* of which the first v were valid, alternating between two faces
LoopEnded(v, n) ==
    [ EmoStart(EmotionConfig) EXCEPT
        !.pc = "loop", !.cap = "open", !.fps = 1 * Scale, !.sample_fps = 1 * Scale,
        !.total_frames = n, !.duration = n * Scale, !.i = n,
        !.raw_t = [k \in 1 .. v |-> (k - 1) * Scale],
        !.raw_smile = [k \in 1 .. v |-> IF k % 2 = 1 THEN 500 ELSE 300],
        !.raw_eye = [k \in 1 .. v |-> IF k % 2 = 1 THEN 200 ELSE 150],
        !.raw_mouth = [k \in 1 .. v |-> IF k % 2 = 1 THEN 50 ELSE 120],
        !.raw_head = [k \in 1 .. v |-> IF k = 1 THEN 0 ELSE 500],
        !.sampled_frames = n, !.valid_frames = v,
        !.prev_center = IF v = 0 THEN NoCenter ELSE <<100, 100>> ]

\* lines 141-265 of analyze_emotion
Call_emotion_result ==
    /\ track = "scores"
    /\ call.fn = "none"
    /\ \E v \in 0 .. MaxValid, n \in 0 .. MaxSampled :
          /\ v <= n
          /\ call' = [fn |-> "emotion_result", args |-> <<v, n>>,
                      out |-> emotion_result(LoopEnded(v, n))]
    /\ UNCHANGED <<track, scene, emo, lang, full, memo, par>>

\* segment end times in ms: zero, inside the first window, on its edge and in
\* the third window
EndGrid == {0, 5000, 10000, 25000}

MaxTimelineSegs == 2

\* segments by what build_timeline reads of them, in any order
TimelineSegs ==
    { Seg(0, e, q, c, FALSE, <<>>, 4, 0, 0, 0, FALSE) :
        e \in EndGrid, q \in BOOLEAN, c \in {0, 2} }

\* line 410 of analyze_language
Call_build_timeline ==
    /\ track = "scores"
    /\ call.fn = "none"
    /\ \E segments \in SeqsUpTo(TimelineSegs, MaxTimelineSegs) :
          call' = [fn |-> "build_timeline", args |-> <<segments>>,
                   out |-> build_timeline(segments)]
    /\ UNCHANGED <<track, scene, emo, lang, full, memo, par>>

NextScores ==
    \/ Call_band_score
    \/ Call_linear_score
    \/ Call_inverse_score
    \/ Call_scene_final_score
    \/ Call_calibrate_score
    \/ Call_score_compliance_from_hits_exp
    \/ Call_score_accuracy_independent
    \/ Call_score_clarity_from_signals
    \/ Call_score_persuasion_from_cta
    \/ Call_remap_with_baseline
    \/ Call_interaction_score
    \/ Call_compress_runs
    \/ Call_compress_runs_local
    \/ Call_autoscale_config
    \/ Call_emotion_sample_fps
    \/ Call_normalize_bundle
    \/ Call_moving_avg
    \/ Call_peak_hold
    \/ Call_detect_q_and_answers
    \/ Call_extract_highlights
    \/ Call_emotion_result
    \/ Call_build_timeline

(***************************************************************************)
(* Specifications                                                          *)
(***************************************************************************)

IdleLang == [pc |-> "idle"]

IdleFull == [pc |-> "idle"]

InitTrack(tr) ==
    /\ track = tr
    /\ call = NoCall
    /\ IF tr = "scene" THEN InitScene ELSE scene = IdleScene
    /\ IF tr = "emotion" THEN InitEmo ELSE emo = IdleEmo
    /\ IF tr \in {"lang", "full"} THEN InitLang ELSE lang = IdleLang
    /\ IF tr = "full" THEN InitFull ELSE full = IdleFull
    /\ IF tr = "memo" THEN InitMemo ELSE memo = IdleMemo
    /\ IF tr = "par" THEN InitPar ELSE par = IdlePar

SpecScores == InitTrack("scores") /\ [][NextScores]_vars

SpecScene == InitTrack("scene") /\ [][NextScene]_vars

SpecEmo == InitTrack("emotion") /\ [][NextEmo]_vars

SpecLang == InitTrack("lang") /\ [][NextLang]_vars

SpecFull == InitTrack("full") /\ [][NextLang \/ NextFull]_vars

SpecMemo == InitTrack("memo") /\ [][NextMemo]_vars

SpecPar == InitTrack("par") /\ [][NextPar]_vars

Tracks == {"scores", "scene", "emotion", "lang", "full", "memo", "par"}

Init == \E tr \in Tracks : InitTrack(tr)

Next ==
    \/ NextScores
    \/ NextScene
    \/ NextEmo
    \/ NextLang
    \/ NextFull
    \/ NextMemo
    \/ NextPar

Spec == Init /\ [][Next]_vars


(***************************************************************************)
(* Properties                                                              *)
(***************************************************************************)

InRange(x) == 0 <= x /\ x <= Full

\* C1: every score-producing function returns a value in [0,100], for every
\* input: the three scene curves and the weighted final score, calibrate_score
\* with the default floor and ceiling, the four language scores, the baseline
\* remap and the interaction composite, on zero, large and negative hits and
\* on an empty segment list; so do the scores of the results built from them.
ScoresInRange ==
    /\ call.fn \in ScoreFns => InRange(call.out)
    /\ (track = "scene" /\ scene.pc = "done") => InRange(scene.result.score)
    /\ (track = "emotion" /\ emo.pc = "done") => InRange(emo.result.score)
    /\ (track \in {"lang", "full"} /\ lang.pc = "done") =>
          /\ InRange(lang.result.lang_interaction.score)
          /\ InRange(lang.result.lang_exaggeration.score)
          /\ InRange(lang.result.lang_scores.accuracy)
          /\ InRange(lang.result.lang_scores.clarity)
          /\ InRange(lang.result.lang_scores.persuasion)
    /\ (track = "full" /\ full.pc = "returned") =>
          InRange(full.result.visual.brightness_score)

\* a score function has been called on a negative hit count
ScoresInRangeWitness ==
    /\ call.fn = "score_compliance_from_hits_exp"
    /\ call.args[1] < 0
    /\ call.out = Full

\* C2: whenever extraction yields zero valid samples (no decoded frame, no
\* valid face frame, no transcribed segment), the score of the bundle is
\* exactly 0.0, for the scene, emotion, lang_interaction and
\* lang_exaggeration bundles.
ZeroSamplesScoreZero ==
    /\ (track = "scene" /\ scene.pc = "done" /\ scene.times = <<>>) =>
          scene.result.score = 0
    /\ (track = "emotion" /\ emo.pc = "done" /\ emo.raw_t = <<>>) =>
          emo.result.score = 0
    /\ (track \in {"lang", "full"} /\ lang.pc = "done" /\ lang.segs = <<>>) =>
          /\ lang.result.lang_interaction.score = 0
          /\ lang.result.lang_exaggeration.score = 0

\* analyze_language has returned on zero segments
ZeroSegmentsReturned ==
    /\ track = "lang"
    /\ lang.pc = "done"
    /\ lang.segs = <<>>
    /\ lang.result.lang_exaggeration.score = Full

\* C3: every track that ends with zero valid samples returns a default-valued
\* result holding at least one explanatory highlight: the scene track with
\* no decoded frame, the emotion track with no valid frame and the language
\* track with no segment.
ZeroSamplesExplained ==
    /\ (track = "scene" /\ scene.pc = "done" /\ scene.times = <<>>) =>
          Len(scene.result.highlights) >= 1
    /\ (track = "emotion" /\ emo.pc = "done" /\ emo.raw_t = <<>>) =>
          Len(emo.result.highlights) >= 1
    /\ (track \in {"lang", "full"} /\ lang.pc = "done" /\ lang.segs = <<>>) =>
          Len(lang.result.lang_interaction.highlights)
          + Len(lang.result.lang_exaggeration.highlights) >= 1

\* analyze_language has returned on zero segments with no highlight at all
ZeroSegmentsUnexplained ==
    /\ track = "lang"
    /\ lang.pc = "done"
    /\ lang.segs = <<>>
    /\ lang.result.lang_interaction.highlights = <<>>
    /\ lang.result.lang_exaggeration.highlights = <<>>

\* the frames of a video of n read frames that the loop samples
SampledIndices(n, step) == { j \in 0 .. n - 1 : j % step = 0 }

\* C4: when no sampled frame yields face metrics, analyze_emotion returns
\* score 0.0, valence_mean and energy_mean 0.0, an empty timeline and exactly
\* one highlight, the no-face one; perf reports valid_frames = 0 and
\* frames_sampled = the number of frames sampled, whatever the video length.
NoFaceResult ==
    (track = "emotion" /\ emo.pc = "done" /\ emo.raw_t = <<>>) =>
        /\ emo.result.score = 0
        /\ emo.result.signals.valence_mean = 0
        /\ emo.result.signals.energy_mean = 0
        /\ emo.result.timeline = <<>>
        /\ Len(emo.result.highlights) = 1
        /\ emo.result.highlights[1].reason = "no_face"
        /\ emo.result.perf.valid_frames = 0
        /\ emo.result.perf.frames_sampled = Cardinality(SampledIndices(emo.i, emo.step))

\* a video of several sampled frames, none with a face, has been analysed
NoFaceWitness ==
    /\ track = "emotion"
    /\ emo.pc = "done"
    /\ emo.raw_t = <<>>
    /\ emo.result.perf.frames_sampled >= 2

\* C5: when the visual track cannot open the video, run_full_analysis still
\* returns the result of the language track.
OpenErrorKeepsLanguage ==
    (track = "full" /\ full.cap = "unopened") =>
        /\ full.pc = "returned"
        /\ full.result.language = normalize_bundle(lang.result)

\* the language bundle was computed and the visual track failed to open
OpenErrorAfterLanguage ==
    /\ track = "full"
    /\ full.cap = "unopened"
    /\ lang.pc = "done"
    /\ full.pc = "raised"
    /\ full.result = NoBundle

\* C6: in the scene and emotion loops an exception raised while one sampled
\* frame is processed only skips that frame; the only failure that leaves a
\* track is the failure to open the video.
FrameErrorsSkipped ==
    /\ (track = "scene" /\ scene.pc = "raised") => scene.error = "open"
    /\ (track = "emotion" /\ emo.pc = "raised") => emo.error = "open"

\* a frame exception has left a track after earlier frames were sampled
FrameErrorPropagated ==
    \/ track = "scene" /\ scene.pc = "raised" /\ scene.error = "frame_metrics"
       /\ scene.sampled >= 1
    \/ track = "emotion" /\ emo.pc = "raised" /\ emo.error = "extract_face_metrics"
       /\ emo.valid_frames >= 1

\* C7: analyze_language returns a complete result, without raising, whatever
\* the speech backend does (absent, model loading failing, direct
\* transcription raising, audio extraction failing, fallback raising), and
\* the failure is recorded in the debug block.
LanguageNeverRaises ==
    track = "lang" =>
        /\ lang.pc # "raised"
        /\ lang.pc = "done" =>
              /\ lang.result.debug.segments_count = Len(lang.segs)
              /\ (lang.backend = "none") => lang.result.debug.error # <<>>

\* the model constructor raised and analyze_language raised with it
LoadAsrPropagated ==
    /\ track = "lang"
    /\ lang.pc = "raised"
    /\ lang.error = "_load_asr"
    /\ lang.last_debug = NoDebug

\* C8: when the OCR backend is unavailable or raises on every call, the scene
\* analyze_video completes without an exception of OCR, every timeline record
\* has logo = false and text_area = 0, and logo_visible_ratio and
\* logo_area_mean are 0.0, whatever the number of OCR attempts.
OcrFailureAbsorbed ==
    (track = "scene" /\ scene.pc \in {"loop", "done", "raised"}
       /\ scene.ocr_backend \in {"unavailable", "raises"}) =>
        /\ scene.error # "ocr_on_frame"
        /\ \A k \in 1 .. Len(scene.timeline) :
              ~scene.timeline[k].logo /\ scene.timeline[k].text_area = 0
        /\ scene.pc = "done" /\ scene.times # <<>> =>
              /\ scene.result.signals.logo_visible_ratio = 0
              /\ scene.result.signals.logo_area_mean = 0
              /\ scene.result.timeline = scene.timeline

\* the engine raised on each of several OCR attempts and the track returned
OcrFailureWitness ==
    /\ track = "scene"
    /\ scene.pc = "done"
    /\ scene.ocr_backend = "raises"
    /\ scene.result.perf.ocr_attempts >= 2

\* C9: the video handle a track opened is released on every exit path of the
\* track: end of stream, failed read or retrieve, zero-sample return, and an
\* exception raised while a frame is processed.
HandleReleased ==
    /\ (track = "scene" /\ scene.pc \in {"done", "raised"}) => scene.cap # "open"
    /\ (track = "emotion" /\ emo.pc \in {"done", "raised"}) => emo.cap # "open"
    /\ (track = "full" /\ full.pc \in {"returned", "raised"}) => full.cap # "open"

\* a track has been left by a frame exception with its handle still open
HandleLeaked ==
    \/ track = "scene" /\ scene.pc = "raised" /\ scene.cap = "open"
    \/ track = "emotion" /\ emo.pc = "raised" /\ emo.cap = "open"
    \/ track = "full" /\ full.pc = "raised" /\ full.cap = "open"

\* the maximal runs of True of mask, as pairs of indices
MaximalRuns(mask) ==
    { r \in (1 .. Len(mask)) \X (1 .. Len(mask)) :
        /\ r[1] <= r[2]
        /\ \A k \in r[1] .. r[2] : mask[k]
        /\ r[1] = 1 \/ ~mask[r[1] - 1]
        /\ r[2] = Len(mask) \/ ~mask[r[2] + 1] }

\* the runs compress_runs has to report
LongRuns(times, mask, min_s) ==
    { r \in MaximalRuns(mask) : times[r[2]] - times[r[1]] >= min_s }

\* C10: on strictly increasing timestamps and a mask of the same length,
\* compress_runs (the scene helper and the local one of analyze_emotion)
\* returns, in time order, exactly one interval (first, last True timestamp)
\* per maximal run of True whose duration is >= min_s and nothing else; a run
\* of duration exactly min_s is kept and a run open at the end counts like any
\* other.  The mask rebuilt from the intervals is the input mask on those
\* runs and False elsewhere.
CompressRunsExact ==
    call.fn \in {"compress_runs", "compress_runs_local"} =>
        LET times == call.args[1]
            mask  == call.args[2]
            min_s == call.args[3]
            out   == call.out
            long  == LongRuns(times, mask, min_s)
        IN  /\ Len(out) = Cardinality(long)
            /\ { out[k] : k \in 1 .. Len(out) }
                 = { <<times[r[1]], times[r[2]]>> : r \in long }
            /\ \A k \in 1 .. Len(out) - 1 : out[k][2] < out[k + 1][1]
            /\ \A k \in 1 .. Len(times) :
                  (\E j \in 1 .. Len(out) : out[j][1] <= times[k] /\ times[k] <= out[j][2])
                  <=> (\E r \in long : r[1] <= k /\ k <= r[2])

\* compress_runs was called on a mask with a run shorter than min_s and a run
\* of exactly min_s that is still open at the end
CompressRunsWitness ==
    /\ call.fn = "compress_runs"
    /\ call.args[3] > 0
    /\ LET times == call.args[1]
           mask  == call.args[2]
           min_s == call.args[3]
       IN  /\ \E r \in MaximalRuns(mask) : times[r[2]] - times[r[1]] < min_s
           /\ \E r \in MaximalRuns(mask) :
                 r[2] = Len(mask) /\ times[r[2]] - times[r[1]] = min_s
    /\ Len(call.out) = 1

\* two highlights with the same reason that share a time point
SharePoint(h1, h2) ==
    h1.reason = h2.reason /\ h1.start <= h2.end /\ h2.start <= h1.end

NoSameReasonOverlap(hl) ==
    \A a, b \in 1 .. Len(hl) : a # b => ~SharePoint(hl[a], hl[b])

\* C11: in every highlights list returned (scene, emotion, lang_interaction)
\* no two distinct highlights with the same reason share a time point, the
\* intervals being closed; highlights with different reasons may overlap.
HighlightsDisjointPerReason ==
    /\ (track = "scene" /\ scene.pc = "done") =>
          NoSameReasonOverlap(scene.result.highlights)
    /\ (track = "emotion" /\ emo.pc = "done") =>
          NoSameReasonOverlap(emo.result.highlights)
    /\ (track \in {"lang", "full"} /\ lang.pc = "done") =>
          NoSameReasonOverlap(lang.result.lang_interaction.highlights)

\* two adjacent windows are both peaks: their highlights meet at the boundary
AdjacentPeakWindows ==
    /\ track = "lang"
    /\ lang.pc = "done"
    /\ \E a, b \in 1 .. Len(lang.result.lang_interaction.highlights) :
          LET hl == lang.result.lang_interaction.highlights
          IN  a # b /\ hl[a].end = hl[b].start

\* the timestamps i / fps of the frames to sample among n read frames, in
\* increasing order
SampleTimes(n, step, fps) ==
    LET idx == SortedSeq(SampledIndices(n, step))
    IN  [k \in 1 .. Len(idx) |-> (idx[k] * Scale * Scale) \div fps]

\* what the two loops have sampled after reading scene.i / emo.i frames
SampledSoFar ==
    /\ (track = "scene" /\ scene.pc \in {"loop", "done"}) =>
          /\ scene.step = Max(RoundDiv(scene.fps, scene.eff_cfg.sample_fps), 1)
          /\ scene.times = SampleTimes(scene.i, scene.step, scene.fps)
          /\ scene.sampled = Len(scene.times)
    /\ (track = "emotion" /\ emo.pc \in {"loop", "done"}) =>
          /\ emo.step = Max(RoundDiv(emo.fps, emo.sample_fps), 1)
          /\ emo.sampled_frames = Cardinality(SampledIndices(emo.i, emo.step))
          /\ \A k \in 1 .. Len(emo.raw_t) :
                /\ \E j \in SampledIndices(emo.i, emo.step) :
                      emo.raw_t[k] = (j * Scale * Scale) \div emo.fps
                /\ k > 1 => emo.raw_t[k - 1] < emo.raw_t[k]

\* a pass of either loop that stays in the loop moves to the next frame
IndexAdvances ==
    /\ (track = "scene" /\ scene.pc = "loop" /\ scene'.pc = "loop") =>
          scene'.i = scene.i + 1
    /\ (track = "emotion" /\ emo.pc = "loop" /\ emo'.pc = "loop") =>
          emo'.i = emo.i + 1

\* C12: in both frame loops the frames sampled among the N decoded ones are
\* exactly those of index i with i mod step = 0, step = max(round(fps /
\* sample_fps), 1), each once, in increasing order, with timestamp i / fps;
\* in analyze_emotion whichever frames show a face, the index advancing by
\* one on every path through the loop.
SamplingExact == [](SampledSoFar) /\ [][IndexAdvances]_vars

\* analyze_emotion has read four frames with step 2, the first sampled one
\* without a face and the second with one
SamplingWitness ==
    /\ track = "emotion"
    /\ emo.pc = "done"
    /\ emo.step = 2
    /\ emo.i = 4
    /\ emo.sampled_frames = 2
    /\ emo.raw_t = <<1000>>

\* C13: with autoscaling enabled the effective sample rate is never above the
\* configured one and never increases with the duration, the effective OCR
\* interval is never below the configured one and never decreases; the scene
\* caps are 0.5 Hz / 8 s from 10 min, 0.33 Hz / 12 s from 30 min and 0.2 Hz /
\* 20 s from 60 min, the emotion caps 1.0 Hz from 30 min and 0.5 Hz from 60
\* min, the marks themselves in the longer bracket; below 10 min nothing
\* changes.
AutoscaleCaps ==
    /\ (call.fn = "autoscale_config" /\ call.args[1].autoscale_enabled) =>
          LET cfg == call.args[1]
              d   == call.args[2]
              out == call.out
          IN  /\ out.sample_fps <= cfg.sample_fps
              /\ out.ocr_every_s >= cfg.ocr_every_s
              /\ \A d2 \in DurGrid : d2 >= d =>
                    /\ autoscale_config(cfg, d2).sample_fps <= out.sample_fps
                    /\ autoscale_config(cfg, d2).ocr_every_s >= out.ocr_every_s
              /\ d < 10 * 60 * Scale => out = cfg
              /\ d >= 10 * 60 * Scale =>
                    out.sample_fps <= 500 /\ out.ocr_every_s >= 8 * Scale
              /\ d >= 30 * 60 * Scale =>
                    out.sample_fps <= 330 /\ out.ocr_every_s >= 12 * Scale
              /\ d >= 60 * 60 * Scale =>
                    out.sample_fps <= 200 /\ out.ocr_every_s >= 20 * Scale
    /\ (call.fn = "emotion_sample_fps" /\ call.args[1].autoscale_enabled) =>
          LET cfg == call.args[1]
              d   == call.args[2]
          IN  /\ call.out <= cfg.sample_fps
              /\ \A d2 \in DurGrid : d2 >= d =>
                    emotion_sample_fps(cfg, d2) <= call.out
              /\ d < 10 * 60 * Scale => call.out = cfg.sample_fps
              /\ d >= 30 * 60 * Scale => call.out <= 1000
              /\ d >= 60 * 60 * Scale => call.out <= 500
    /\ (track = "scene" /\ scene.pc \in {"loop", "done"}
          /\ scene.config.autoscale_enabled) =>
          /\ scene.eff_cfg.sample_fps <= scene.config.sample_fps
          /\ scene.eff_cfg.ocr_every_s >= scene.config.ocr_every_s
          /\ scene.duration >= 10 * 60 * Scale =>
                scene.eff_cfg.sample_fps <= 500 /\ scene.eff_cfg.ocr_every_s >= 8 * Scale
    /\ (track = "emotion" /\ emo.pc \in {"loop", "done"}
          /\ emo.config.autoscale_enabled) =>
          /\ emo.sample_fps <= emo.config.sample_fps
          /\ emo.duration >= 60 * 60 * Scale => emo.sample_fps <= 500

\* a 1 Hz scene config autoscaled for a video of exactly 10 minutes
AutoscaleWitness ==
    /\ call.fn = "autoscale_config"
    /\ call.args[1].autoscale_enabled
    /\ call.args[1].sample_fps = 1000
    /\ call.args[1].ocr_every_s = 2000
    /\ call.args[2] = 10 * 60 * Scale
    /\ call.out.sample_fps = 500
    /\ call.out.ocr_every_s = 8 * Scale

\* C14: band_score(x, lo, hi) is 100 for every x in [lo, hi] and strictly
\* lower outside; a mean brightness of 150 with the band (120, 180) scores
\* 100.
BandFullMarksInside ==
    call.fn = "band_score" =>
        LET x  == call.args[1]
            lo == call.args[2]
            hi == call.args[3]
        IN  IF lo <= x /\ x <= hi THEN call.out = Full ELSE call.out < Full

\* brightness 150 in the band (120, 180) scores 90
BandMidpointNinety ==
    /\ call.fn = "band_score"
    /\ call.args = <<150, 120, 180>>
    /\ call.out = 90 * Scale

Between(x, lo, hi) == lo <= x /\ x <= hi

\* C15: remap_with_baseline is non-decreasing in its raw input, gives exactly
\* BASELINE - MAX_PENALTY = 40 for raw = 0 and BASELINE + MAX_BONUS = 100 for
\* raw = 100, and treats a raw input outside [0, 100] as the nearer endpoint;
\* so the headline accuracy, clarity and persuasion lie in [40, 100].
RemapMonotoneAnchored ==
    /\ call.fn = "remap_with_baseline" =>
          LET raw == call.args[1]
          IN  /\ \A raw2 \in RawGrid :
                    raw2 >= raw => remap_with_baseline(raw2) >= call.out
              /\ raw = 0 => call.out = (BASELINE - MAX_PENALTY) * Scale
              /\ raw = Full => call.out = (BASELINE + MAX_BONUS) * Scale
              /\ raw < 0 => call.out = 40 * Scale
              /\ raw > Full => call.out = 100 * Scale
              /\ Between(call.out, 40 * Scale, 100 * Scale)
    /\ (track \in {"lang", "full"} /\ lang.pc = "done") =>
          /\ Between(lang.result.lang_scores.accuracy, 40 * Scale, 100 * Scale)
          /\ Between(lang.result.lang_scores.clarity, 40 * Scale, 100 * Scale)
          /\ Between(lang.result.lang_scores.persuasion, 40 * Scale, 100 * Scale)

\* a raw score of -500 is remapped to 40
RemapBelowZero ==
    /\ call.fn = "remap_with_baseline"
    /\ call.args[1] = 0 - 500000
    /\ call.out = 40 * Scale

\* the fields of the language schema: two ScoreBundles, the headline scores
\* with their raw counterparts, and the signals the normaliser names
SchemaFields(b) ==
    IF b \in {"lang_interaction", "lang_exaggeration"}
    THEN {"score", "signals", "timeline", "highlights"}
    ELSE IF b = "lang_scores"
    THEN {"accuracy", "clarity", "persuasion", "wpm", "filler_rate",
          "accuracy_raw", "clarity_raw", "persuasion_raw"}
    ELSE {}

SignalFields(b) ==
    IF b = "lang_interaction"
    THEN {"comments_per_min", "question_ratio", "cta_hits", "reply_rate"}
    ELSE {"exaggeration_hits", "terms", "negation_exempted", "category_overrides"}

DefaultOf(k) ==
    IF k \in {"signals", "timeline", "highlights", "terms"} THEN <<>> ELSE 0

\* k is in the normalised dict, with the given value if there was one and the
\* default otherwise
KeptOrDefault(given, normalised, k) ==
    /\ k \in DOMAIN normalised
    /\ IF k \in DOMAIN given THEN normalised[k] = given[k]
       ELSE normalised[k] = DefaultOf(k)

\* C16: for a language result missing any subset of its four blocks and any
\* subset of their fields, _normalize_bundle returns a bundle holding every
\* schema field, each with the value that was present or else its default
\* (0.0, 0, [] or {}).
NormalizedComplete ==
    call.fn = "normalize_bundle" =>
        LET res == call.args[1]
            out == call.out
        IN  /\ DOMAIN out = {"lang_interaction", "lang_exaggeration", "lang_scores", "debug"}
            /\ out.debug = Get(res, "debug", EmptyDict)
            /\ \A b \in {"lang_interaction", "lang_exaggeration", "lang_scores"} :
                  \A k \in SchemaFields(b) \ {"signals"} :
                      KeptOrDefault(Get(res, b, EmptyDict), out[b], k)
            /\ \A b \in {"lang_interaction", "lang_exaggeration"} :
                  /\ "signals" \in DOMAIN out[b]
                  /\ \A k \in SignalFields(b) :
                        KeptOrDefault(Get(Get(res, b, EmptyDict), "signals", EmptyDict),
                                      out[b]["signals"], k)

\* the normalised form of an empty result has no timeline under
\* lang_exaggeration and no raw score under lang_scores
NormalizedWithoutTimeline ==
    /\ call.fn = "normalize_bundle"
    /\ DOMAIN call.args[1] = {}
    /\ "timeline" \notin DOMAIN call.out.lang_exaggeration
    /\ "accuracy_raw" \notin DOMAIN call.out.lang_scores
    /\ "timeline" \in DOMAIN call.out.lang_interaction

\* C17: moving_avg(arr, k) has the length of arr and its i-th element is the
\* mean of the last min(i+1, k) inputs, the first k-1 outputs dividing by the
\* number of samples seen; for k <= 1 the output is the input.
MovingAvgTrueWindow ==
    call.fn = "moving_avg" =>
        LET arr == call.args[1]
            k   == call.args[2]
            out == call.out
        IN  /\ Len(out) = Len(arr)
            /\ k <= 1 => out = arr
            /\ k > 1 =>
                 \A i \in 1 .. Len(arr) :
                     out[i] = SumSeq(SubSeq(arr, Max(1, i - k + 1), i)) \div Min(i, k)

\* a window of 3 on four samples: the first two outputs average 1 and 2
\* samples, the last drops the first sample
MovingAvgWitness ==
    /\ call.fn = "moving_avg"
    /\ call.args = << <<300, 1000, 0, 1000>>, 3 >>
    /\ call.out = <<300, 650, 433, 666>>

\* C18: for a non-negative series and a decay in (0,1), peak_hold gives
\* out[0] = x[0] and out[i] = max(x[i], out[i-1] * decay); so out[i] >= x[i],
\* out[i] >= out[i-1] * decay, and out[i] < out[i-1] wherever x[i] is below
\* out[i-1] * decay and out[i-1] > 0.
PeakHoldRecurrence ==
    call.fn = "peak_hold" =>
        LET x     == call.args[1]
            decay == Decay(call.args[2])
            out   == call.out
        IN  /\ 0 < decay /\ decay < 10000
            /\ Len(out) = Len(x)
            /\ Len(x) > 0 => out[1] = x[1]
            /\ \A i \in 2 .. Len(x) :
                  LET held == (out[i - 1] * decay) \div 10000
                  IN  /\ out[i] = Max(x[i], held)
                      /\ out[i] >= x[i]
                      /\ out[i] >= held
                      /\ (x[i] < held /\ out[i - 1] > 0) => out[i] < out[i - 1]

\* a peak of 1.0 held over a silent sample at 1 Hz, then overtaken
PeakHoldWitness ==
    /\ call.fn = "peak_hold"
    /\ call.args = << <<1000, 0, 300>>, 1000 >>
    /\ call.out = <<1000, 367, 300>>

\* analyze_language is inside or past transcribe_to_segments
Transcribing == track \in {"lang", "full"} /\ lang.pc \in {"direct", "fallback", "analyze", "done"}

\* the original statement of C19: at most two invocations of the backend, and
\* used_fallback_audio true exactly when the second one was attempted
FallbackFlagIsSecondCall ==
    Transcribing =>
        /\ lang.transcribe_calls <= 2
        /\ lang.transcribe_calls = 2 => lang.wav = "file"
        /\ lang.used_fallback <=> (lang.transcribe_calls = 2)

\* what holds in every state of a call
AttemptsBounded ==
    /\ Transcribing =>
          /\ lang.transcribe_calls <= 2
          /\ lang.transcribe_calls = 2 => (lang.wav = "file" /\ lang.used_fallback)
          /\ lang.used_fallback <=> (lang.wav = "file")
          /\ (lang.backend # "none" /\ lang.pc \in {"analyze", "done"}) =>
                (lang.used_fallback <=> (lang.transcribe_calls = 2))
          /\ lang.pc = "done" =>
                /\ lang.last_debug.error = lang.err_msg
                /\ lang.last_debug.used_fallback_audio = lang.used_fallback
    /\ (track \in {"lang", "full"} /\ lang.pc = "raised") =>
          lang.error \in {"_load_asr", "build_timeline"}

\* what holds of every step of a call
AttemptSteps ==
    /\ (Transcribing /\ lang.pc = "direct" /\ lang'.pc # "direct") =>
          /\ lang'.transcribe_calls <= lang.transcribe_calls + 1
          /\ lang'.segs # <<>> => (lang'.pc = "analyze" /\ lang'.wav = "unset")
          /\ lang'.segs = <<>> => lang'.pc = "fallback"
    /\ (Transcribing /\ lang.pc = "fallback" /\ lang'.pc # "fallback") =>
          /\ lang.segs = <<>>
          /\ lang'.pc = "analyze"
          /\ lang'.transcribe_calls > lang.transcribe_calls => lang'.wav = "file"
    /\ (Transcribing /\ lang.pc = "analyze") =>
          /\ lang'.transcribe_calls = lang.transcribe_calls
          /\ lang'.used_fallback = lang.used_fallback

\* C19: in one call of transcribe_to_segments the backend is invoked at most
\* twice, the second time only after a direct attempt with zero segments and
\* an extracted audio file; with at least one segment from the direct attempt
\* there is no fallback; an exception of either attempt is kept in the debug
\* error string and not raised; used_fallback_audio is true exactly when the
\* audio extraction returned a file, which with a loaded backend is exactly
\* when the second invocation was attempted.
TranscribeAttempts == [](AttemptsBounded) /\ [][AttemptSteps]_vars

\* both attempts were made and both raised
BothAttemptsRaised ==
    /\ track = "lang"
    /\ lang.pc = "done"
    /\ lang.transcribe_calls = 2
    /\ lang.used_fallback
    /\ lang.err_msg = <<"direct_error", "fallback_error">>

\* segment q has a later segment starting at most 15 s after its end that
\* holds a number or a yes/no token
HasAnswer(segs, q) ==
    \E j \in q + 1 .. Len(segs) :
        /\ segs[j].start - segs[q].end <= QA_PAIR_MAX_GAP * Scale
        /\ segs[j].answer

\* C20: on segments ordered by start time, overlaps allowed,
\* detect_q_and_answers counts a question as answered if and only if some
\* later segment starting at most 15 s after its end holds a number or a
\* yes/no token, each question once: answered <= questions, reply_rate is in
\* [0,1] and is 0 without questions.
ReplyPairingExact ==
    /\ call.fn = "detect_q_and_answers" =>
          LET segs == call.args[1]
              qs   == { q \in 1 .. Len(segs) : segs[q].question }
          IN  /\ call.out[1] = Cardinality(qs)
              /\ call.out[2] = Cardinality({ q \in qs : HasAnswer(segs, q) })
              /\ call.out[2] <= call.out[1]
              /\ Between(call.out[3], 0, Scale)
              /\ call.out[1] = 0 => call.out[3] = 0
    /\ (track \in {"lang", "full"} /\ lang.pc = "done") =>
          Between(lang.result.lang_interaction.signals.reply_rate, 0, Scale)

\* a question overlapped by a segment that does not answer it and answered
\* by one starting exactly 15 s after its end
ReplyPairingWitness ==
    /\ call.fn = "detect_q_and_answers"
    /\ Len(call.args[1]) = 3
    /\ call.args[1][1].question /\ call.args[1][1].end = 2000
    /\ call.args[1][2].start = 1000 /\ ~call.args[1][2].answer /\ ~call.args[1][2].question
    /\ call.args[1][3].start = 17000 /\ call.args[1][3].answer /\ ~call.args[1][3].question
    /\ call.out = <<1, 1, Scale>>

\* the 75th-percentile value of a non-empty list as the code takes it: the
\* element of rank floor(0.75 * (n - 1)) in ascending order
P75(xs) ==
    LET r == (3 * (Len(xs) - 1)) \div 4
    IN  CHOOSE v \in { xs[i] : i \in 1 .. Len(xs) } :
            /\ Cardinality({ i \in 1 .. Len(xs) : xs[i] < v }) <= r
            /\ Cardinality({ i \in 1 .. Len(xs) : xs[i] <= v }) > r

\* the highlights are the buckets of the timeline at which peak holds, each
\* spanning its bucket, in order
HighlightsAre(timeline, hl, peak(_)) ==
    LET peaks == { i \in 1 .. Len(timeline) : peak(i) }
    IN  /\ Len(hl) = Cardinality(peaks)
        /\ \A i \in peaks : \E k \in 1 .. Len(hl) :
              /\ hl[k].start = (i - 1) * WINDOW_SECONDS * Scale
              /\ hl[k].end = i * WINDOW_SECONDS * Scale
        /\ \A k \in 1 .. Len(hl) - 1 : hl[k].start < hl[k + 1].start

\* the original statement of C21: a bucket is a highlight exactly when both
\* counts are at or above their 75th-percentile values
HighlightIffAtPercentile ==
    call.fn = "extract_highlights" =>
        LET tl   == call.args[1]
            ctas == [i \in 1 .. Len(tl) |-> tl[i].cta]
            qs   == [i \in 1 .. Len(tl) |-> tl[i].questions]
            AtPercentile(i) == tl[i].cta >= P75(ctas) /\ tl[i].questions >= P75(qs)
        IN  HighlightsAre(tl, call.out, AtPercentile)

\* C21: extract_highlights marks a 10-second bucket as a highlight if and
\* only if its CTA count is at or above the 75th-percentile CTA count of the
\* buckets and at least 1, and its question count is at or above the
\* 75th-percentile question count and at least 1; the highlight spans exactly
\* that bucket, [i*10, (i+1)*10].
HighlightIffAtFlooredPercentile ==
    call.fn = "extract_highlights" =>
        LET tl   == call.args[1]
            ctas == [i \in 1 .. Len(tl) |-> tl[i].cta]
            qs   == [i \in 1 .. Len(tl) |-> tl[i].questions]
            AtFloored(i) == /\ tl[i].cta >= Max(1, P75(ctas))
                            /\ tl[i].questions >= Max(1, P75(qs))
        IN  HighlightsAre(tl, call.out, AtFloored)

\* three buckets of which only the second reaches both thresholds
HighlightWitness ==
    /\ call.fn = "extract_highlights"
    /\ Len(call.args[1]) = 3
    /\ call.args[1][1].cta = 1 /\ call.args[1][1].questions = 0
    /\ call.args[1][2].cta = 2 /\ call.args[1][2].questions = 1
    /\ call.args[1][3].cta = 0 /\ call.args[1][3].questions = 2
    /\ call.out = << [start |-> 10 * Scale, end |-> 20 * Scale,
                      reason |-> "CTA and questions peak"] >>

\* the five raw series of analyze_emotion
EmoSeries(e) == <<e.raw_t, e.raw_smile, e.raw_eye, e.raw_mouth, e.raw_head>>

\* the series have one entry per valid frame, and so has the timeline
SeriesAligned ==
    (track = "emotion" /\ emo.pc \in {"loop", "done", "raised"} /\ emo.error # "open") =>
        /\ \A k \in 1 .. 5 : Len(EmoSeries(emo)[k]) = emo.valid_frames
        /\ emo.valid_frames <= emo.sampled_frames
        /\ \A k \in 2 .. Len(emo.raw_t) : emo.raw_t[k - 1] < emo.raw_t[k]
        /\ emo.pc = "done" =>
              /\ Len(emo.result.timeline) = emo.valid_frames
              /\ \A k \in 1 .. Len(emo.raw_t) : emo.result.timeline[k].t = emo.raw_t[k]

\* a sampled frame that is not valid leaves the series as they are; a valid
\* one extends each by one entry, at the frame's timestamp
SkippedFrameAddsNothing ==
    (track = "emotion" /\ emo.pc = "loop" /\ emo'.sampled_frames = emo.sampled_frames + 1) =>
        IF emo'.valid_frames = emo.valid_frames
        THEN EmoSeries(emo') = EmoSeries(emo)
        ELSE /\ emo'.valid_frames = emo.valid_frames + 1
             /\ emo'.raw_t = Append(emo.raw_t, (emo.i * Scale * Scale) \div emo.fps)
             /\ \A k \in 2 .. 5 : Len(EmoSeries(emo')[k]) = Len(EmoSeries(emo)[k]) + 1

\* C22: in analyze_emotion a sampled frame with no detectable face or no
\* landmarks contributes nothing to any series: the timestamp, smile, eye,
\* mouth and head series all have length valid_frames <= frames_sampled,
\* the timestamps increase strictly, and the timeline has exactly one record
\* per valid frame, at that frame's timestamp.
SkippedFramesLeaveNoTrace == [](SeriesAligned) /\ [][SkippedFrameAddsNothing]_vars

\* four sampled frames of which the second and the fourth are valid
SkippedFramesWitness ==
    /\ track = "emotion"
    /\ emo.pc = "done"
    /\ emo.sampled_frames = 4
    /\ emo.valid_frames = 2
    /\ emo.raw_t = <<4000, 12000>>
    /\ Len(emo.result.timeline) = 2
    /\ emo.result.timeline[2].t = 12000

\* the number of highlights of a result with the given reason
CountReason(res, reason) ==
    Cardinality({ k \in 1 .. Len(res.highlights) : res.highlights[k].reason = reason })

\* what C23 says of a result for v valid frames among n sampled ones
LowConfidenceFlagged(res, v, n) ==
    /\ res.perf.frames_sampled = n
    /\ res.perf.valid_frames = v
    /\ n > 0 => res.perf.detection_rate = (v * Scale) \div n
    /\ IF v = 0
       THEN CountReason(res, "no_face") = 1 /\ CountReason(res, "low_coverage") = 0
       ELSE /\ CountReason(res, "no_face") = 0
            /\ CountReason(res, "low_coverage") = (IF 5 * v < n THEN 1 ELSE 0)

\* C23: analyze_emotion reports detection_rate = valid_frames /
\* frames_sampled, and its highlights hold a low-confidence entry whenever
\* the rate is below 20% (the low-coverage one with at least one valid frame,
\* the no-face one with none) and none when the rate is 20% or more; exactly
\* 20% does not trigger it.
LowCoverageBelowFifth ==
    /\ call.fn = "emotion_result" =>
          LowConfidenceFlagged(call.out, call.args[1], call.args[2])
    /\ (track = "emotion" /\ emo.pc = "done") =>
          LowConfidenceFlagged(emo.result, emo.valid_frames, emo.sampled_frames)

\* one valid frame among six sampled ones
LowCoverageWitness ==
    /\ call.fn = "emotion_result"
    /\ call.args = <<1, 6>>
    /\ call.out.perf.detection_rate = 166
    /\ CountReason(call.out, "low_coverage") = 1

\* one valid frame among five: exactly 20%
ExactlyFifthWitness ==
    /\ call.fn = "emotion_result"
    /\ call.args = <<1, 5>>
    /\ call.out.perf.detection_rate = 200
    /\ CountReason(call.out, "low_coverage") = 0

\* no step of a track changes the config object the caller passed
ConfigKept ==
    /\ track = "scene" => scene'.config = scene.config
    /\ track = "emotion" => emo'.config = emo.config

\* values that differ from the caller's are held by another object (scene)
\* or by a local variable (emotion), the caller's fields being as passed
ChangedValuesElsewhere ==
    /\ (track = "scene" /\ scene.pc \in {"loop", "done", "raised"}) =>
          /\ scene.config \in SceneConfigs
          /\ scene.eff_cfg # scene.config => ~scene.eff_is_config
          /\ scene.eff_is_config => scene.eff_cfg = scene.config
    /\ (track = "emotion" /\ emo.pc \in {"loop", "done", "raised"}) =>
          emo.config \in EmotionConfigs

\* C24: no analysis operation mutates the configuration object it is given:
\* autoscale_config, the scene analyze_video and analyze_emotion leave every
\* field of the caller's config unchanged for every duration, and the values
\* autoscaling changes live in a different config object or a local variable.
ConfigNeverMutated == [](ChangedValuesElsewhere) /\ [][ConfigKept]_vars

\* a video of more than an hour analysed with the default 1 Hz config: the
\* run used 0.2 Hz and 20 s, the caller's config still says 1 Hz and 5 s
AutoscaledCopyWitness ==
    /\ track = "scene"
    /\ scene.pc = "done"
    /\ scene.config = SceneConfig
    /\ scene.config.sample_fps = 1 * Scale
    /\ scene.eff_cfg.sample_fps = 200
    /\ scene.eff_cfg.ocr_every_s = 20 * Scale
    /\ ~scene.eff_is_config

\* the last n elements of a sequence
LastN(q, n) == SubSeq(q, Max(1, Len(q) - n + 1), Len(q))

\* the cache holds the (at most maxsize) distinct paths that were asked for
\* and returned most recently
CacheIsRecent ==
    track = "memo" => memo.cache = LastN(memo.order, CACHE_MAXSIZE)

\* a call runs analyze_language for its path exactly when the path is not
\* among those, and never for another path
RecomputedIffNotRecent ==
    (track = "memo" /\ memo'.ncalls = memo.ncalls + 1) =>
        LET p == memo'.last.path
            ran == IF InSeq(LastN(memo.order, CACHE_MAXSIZE), p) THEN 0 ELSE 1
        IN  /\ memo'.computed[p] = memo.computed[p] + ran
            /\ (memo'.last.outcome = "hit") = (ran = 0)
            /\ \A r \in 1 .. NumPaths : r # p => memo'.computed[r] = memo.computed[r]

\* C25 as stated: in a run where no analysis raised, analyze_language is
\* computed at most once for each distinct video path, however many other
\* paths were analysed in between
ComputedOncePerPath ==
    (track = "memo" /\ memo.nraises = 0) =>
        \A p \in 1 .. NumPaths : memo.computed[p] <= 1

\* C25: a call of run_language_analysis returns the memoized bundle without
\* running analyze_language exactly when its path is among the CACHE_MAXSIZE
\* distinct paths that were most recently asked for and returned; a path
\* evicted since, or whose analysis raised, is computed again
MemoizedWhileRecent == [](CacheIsRecent) /\ [][RecomputedIffNotRecent]_vars

\* a path was analysed, eight other paths were analysed after it, and a
\* further call with the first path ran analyze_language again
RecomputedAfterEviction ==
    /\ track = "memo"
    /\ memo.nraises = 0
    /\ memo.last.outcome = "miss"
    /\ memo.computed[memo.last.path] = 2
    /\ Len(memo.order) > CACHE_MAXSIZE

\* states of an analyze_video run that has opened the video
SceneRunning == track = "scene" /\ scene.pc \in {"loop", "done", "raised"}

\* the least distance of two OCR attempts
OcrGap(cfg) == Max(cfg.ocr_every_s, 1 * Scale)

\* hits never exceed attempts, attempts never exceed sampled frames
OcrCounts ==
    SceneRunning =>
        /\ 0 <= scene.ocr_logo_frames
        /\ scene.ocr_logo_frames <= scene.ocr_frames
        /\ scene.ocr_frames <= scene.sampled
        /\ Len(scene.ocr_times) = scene.ocr_frames

\* every attempt is on a sampled frame and any two are at least a gap apart
OcrSpaced ==
    SceneRunning =>
        /\ \A k \in 1 .. Len(scene.ocr_times) : InSeq(scene.times, scene.ocr_times[k])
        /\ \A j, k \in 1 .. Len(scene.ocr_times) :
              j < k => scene.ocr_times[k] - scene.ocr_times[j] >= OcrGap(scene.eff_cfg)

\* on a sampled frame OCR is attempted exactly when the last attempt is a gap
\* or more back (or there was none) and the frame passes the sharpness floor:
\* frames skipped for being blurry do not enter the test
OcrAttemptRule ==
    (SceneRunning /\ scene'.sampled = scene.sampled + 1 /\ scene'.pc # "raised") =>
        LET cfg == scene.eff_cfg
            t   == scene'.times[Len(scene'.times)]
            vl  == scene'.varlap_list[Len(scene'.varlap_list)]
            n   == Len(scene.ocr_times)
            due == n = 0 \/ t - scene.ocr_times[n] >= OcrGap(cfg)
            sharp == cfg.ocr_only_if_sharp => vl >= cfg.ocr_min_varlap
        IN  /\ (Len(scene'.ocr_times) = n + 1) = (due /\ sharp)
            /\ Len(scene'.ocr_times) \in {n, n + 1}

\* a step that samples no frame attempts no OCR
OcrOnlyOnSampled ==
    (SceneRunning /\ scene'.sampled = scene.sampled) =>
        scene'.ocr_times = scene.ocr_times /\ scene'.ocr_frames = scene.ocr_frames

\* C26: within one analyze_video run OCR is attempted only on sampled frames,
\* the timestamps of any two attempts differ by at least max(ocr_every_s, 1.0)
\* seconds, a frame skipped for being below the sharpness floor does not
\* postpone the next attempt, and ocr_hits <= ocr_attempts <= frames_sampled
\* at every point of the run
OcrThrottled ==
    [](OcrCounts /\ OcrSpaced) /\ [][OcrAttemptRule /\ OcrOnlyOnSampled]_vars

\* the first sampled frame was too blurry for OCR, the next one was attempted,
\* the one after it came too early, and the fourth was attempted again
OcrThrottledWitness ==
    /\ SceneRunning
    /\ scene.eff_cfg.ocr_only_if_sharp
    /\ scene.sampled = 4
    /\ Len(scene.ocr_times) = 2
    /\ scene.ocr_times[1] = scene.times[2]
    /\ scene.ocr_times[2] = scene.times[4]

\* the run returned after at least one OCR attempt, and every attempt hit
EveryAttemptHit ==
    /\ track = "scene"
    /\ scene.pc = "done"
    /\ scene.ocr_frames > 0
    /\ scene.ocr_logo_frames = scene.ocr_frames

\* C27: if every OCR attempt of an analyze_video run reports a logo hit, the
\* result has no highlight with the no-logo-visible reason: sampled frames on
\* which OCR was not attempted do not count as frames without a logo
NoLogoOnlyFromAttempts ==
    EveryAttemptHit =>
        \A k \in 1 .. Len(scene.result.highlights) :
            scene.result.highlights[k].reason # "no_logo"

\* every attempt hit (logo_visible_ratio is 1.0) and the result still has a
\* no-logo highlight, spanning frames on which OCR was not attempted
NoLogoOverUnattempted ==
    /\ EveryAttemptHit
    /\ scene.result.signals.logo_visible_ratio = Scale
    /\ \E k \in 1 .. Len(scene.result.highlights) :
          LET h == scene.result.highlights[k]
          IN  /\ h.reason = "no_logo"
              /\ \A j \in 1 .. Len(scene.times) :
                    Between(scene.times[j], h.start, h.end) =>
                        ~InSeq(scene.ocr_times, scene.times[j])

\* the cta (resp. question) counts of all buckets together
BucketCta(bins) == SumSeq([k \in 1 .. Len(bins) |-> bins[k].cta])

BucketQuestions(bins) == SumSeq([k \in 1 .. Len(bins) |-> bins[k].questions])

\* the CTA hits and the question-like segments of a list
SegCta(segments) == SumSeq([k \in 1 .. Len(segments) |-> segments[k].cta])

SegQuestions(segments) == Cardinality({ k \in 1 .. Len(segments) : segments[k].question })

\* C28: for every non-empty list of segments with non-negative end times
\* build_timeline returns without error, and the cta counts (resp. question
\* counts) of all buckets add up to the whole-video cta total reported as
\* signals.cta_hits (resp. to the number of question-like segments)
TimelineCountsEverything ==
    (call.fn = "build_timeline" /\ call.args[1] # <<>>) =>
        /\ ~call.out.raised
        /\ call.out.cta_total = SegCta(call.args[1])
        /\ BucketCta(call.out.bins) = call.out.cta_total
        /\ BucketQuestions(call.out.bins) = SegQuestions(call.args[1])

\* the last segment ends at 0.0, so there is no bucket, and a question or a
\* CTA hit is to be counted: bins[-1] of the empty list raises IndexError
TimelineIndexError ==
    /\ call.fn = "build_timeline"
    /\ call.args[1] # <<>>
    /\ call.args[1][Len(call.args[1])].end = 0
    /\ call.out.raised

\* with at least one bucket the counts are complete
TimelineCountsWithBuckets ==
    (call.fn = "build_timeline" /\ call.args[1] # <<>>
        /\ call.args[1][Len(call.args[1])].end > 0) =>
        /\ ~call.out.raised
        /\ call.out.cta_total = SegCta(call.args[1])
        /\ BucketCta(call.out.bins) = call.out.cta_total
        /\ BucketQuestions(call.out.bins) = SegQuestions(call.args[1])

\* C29: when two analyze_language calls run concurrently in one process, the
\* debug block of each call's result describes that call's own transcription
\* (segments_count, error and used_fallback_audio are its own), for every
\* interleaving of the two calls
DebugIsOwn ==
    track = "par" =>
        \A c \in Callers : par.pc[c] = "done" => par.debug[c] = par.own[c]

\* a call returned with a debug block whose segments_count is the other
\* call's: the other call stored its _last_debug between this call's store
\* and read
DebugOfOtherCall ==
    /\ track = "par"
    /\ \E c, d \in Callers :
          /\ c # d
          /\ par.pc[c] = "done"
          /\ par.debug[c].segments_count # par.own[c].segments_count
          /\ par.debug[c] = par.own[d]

\* states of an analyze_emotion loop
EmoLooping == track = "emotion" /\ emo.pc \in {"loop", "done", "raised"}

\* displacement of the box centre from one valid frame to the next, over the
\* width of the later frame's box
HeadMotionBetween(a, b) == DivEps(Hypot(b[1] - a[1], b[2] - a[2]), b[3], Scale)

\* prev_center is the box centre of the most recent valid frame, None before
PrevCenterIsLastValid ==
    EmoLooping =>
        LET n == Len(emo.raw_box)
        IN  /\ n = emo.valid_frames
            /\ emo.prev_center = IF n = 0 THEN NoCenter
                                 ELSE <<emo.raw_box[n][1], emo.raw_box[n][2]>>

\* the first valid frame has head_motion 0, every later one the displacement
\* from the valid frame before it
HeadMotionFromLastValid ==
    EmoLooping =>
        /\ Len(emo.raw_head) = Len(emo.raw_box)
        /\ \A k \in 1 .. Len(emo.raw_head) :
              emo.raw_head[k] = IF k = 1 THEN 0
                                ELSE HeadMotionBetween(emo.raw_box[k - 1], emo.raw_box[k])

\* a sampled frame without metrics leaves prev_center as it was
SkippedFrameKeepsCenter ==
    (EmoLooping /\ emo'.sampled_frames = emo.sampled_frames + 1
        /\ emo'.valid_frames = emo.valid_frames) =>
        emo'.prev_center = emo.prev_center

\* C30: in analyze_emotion prev_center always equals the detection-box centre
\* of the most recent valid frame (None before the first): a frame with no
\* face, or with a box but no landmarks, leaves it unchanged, the first valid
\* frame has head_motion 0 and every later valid frame's head_motion is the
\* displacement from the last valid frame's centre over the current face
\* width, however many sampled frames were skipped in between
HeadMotionTracksValidFrames ==
    [](PrevCenterIsLastValid /\ HeadMotionFromLastValid) /\ [][SkippedFrameKeepsCenter]_vars

\* two valid frames with different box centres and widths, with two sampled
\* frames skipped between them
HeadMotionWitness ==
    /\ EmoLooping
    /\ emo.valid_frames = 2
    /\ emo.sampled_frames = 4
    /\ Len(emo.raw_t) = 2
    /\ emo.raw_t[2] - emo.raw_t[1] = 3 * 4000
    /\ emo.raw_box[1][3] # emo.raw_box[2][3]
    /\ emo.raw_head[2] > 0

=============================================================================
